---------------------------- MODULE Spec2Model ----------------------------
(***************************************************************************)
(* Verification model of the SDS_Inventory ingestion backend               *)
(* (src/server): the row normalizer (sheets.py), the column mapper         *)
(* (column_mapping.py), the ingestion orchestrator (ingest_new.py), the    *)
(* bulk ingestion endpoint (app_extended.py) and the dashboard cache       *)
(* (dashboard_cache.py).                                                   *)
(*                                                                         *)
(* Python strings are sequences of one-character strings, so that trimming,*)
(* lower-casing and header normalisation are computed, not assumed.        *)
(* Python None is the value None below; a float is Float(numeral).         *)
(***************************************************************************)
EXTENDS Integers, Sequences, FiniteSets, Bags, TLC

----------------------------------------------------------------------------
(* Python values *)

None == <<"None">>

Float(numeral) == <<"float">> \o numeral

IsFloat(v) == Len(v) >= 1 /\ v[1] = "float"

FloatBody(v) == SubSeq(v, 2, Len(v))

Truthy(v) ==
  /\ v # None
  /\ v # <<>>
  /\ ~(IsFloat(v) /\ \A i \in 2..Len(v) : v[i] \in {"0", "."})

Whitespace == {" ", "\t", "\n"}

UpperAZ ==
  <<"A","B","C","D","E","F","G","H","I","J","K","L","M",
    "N","O","P","Q","R","S","T","U","V","W","X","Y","Z">>

LowerAZ ==
  <<"a","b","c","d","e","f","g","h","i","j","k","l","m",
    "n","o","p","q","r","s","t","u","v","w","x","y","z">>

Digits == {"0","1","2","3","4","5","6","7","8","9"}

LowerChar(c) ==
  IF \E i \in 1..26 : UpperAZ[i] = c
  THEN LowerAZ[CHOOSE i \in 1..26 : UpperAZ[i] = c]
  ELSE c

Lower(s) == [i \in 1..Len(s) |-> LowerChar(s[i])]

RECURSIVE LStripSet(_, _)
LStripSet(s, cs) ==
  IF s # <<>> /\ Head(s) \in cs THEN LStripSet(Tail(s), cs) ELSE s

RECURSIVE RStripSet(_, _)
RStripSet(s, cs) ==
  IF s # <<>> /\ s[Len(s)] \in cs
  THEN RStripSet(SubSeq(s, 1, Len(s) - 1), cs)
  ELSE s

StripSet(s, cs) == RStripSet(LStripSet(s, cs), cs)

Strip(s) == StripSet(s, Whitespace)

ReplaceChar(s, from, to) == [i \in 1..Len(s) |-> IF s[i] = from THEN to ELSE s[i]]

RemoveChars(s, cs) == SelectSeq(s, LAMBDA c : c \notin cs)

RECURSIVE CollapseUnderscores(_)
CollapseUnderscores(s) ==
  IF Len(s) < 2 THEN s
  ELSE IF s[1] = "_" /\ s[2] = "_"
       THEN CollapseUnderscores(Tail(s))
       ELSE <<s[1]>> \o CollapseUnderscores(Tail(s))

ParsesAsFloat(s) ==
  LET t == Strip(s) IN
  /\ \A i \in 1..Len(t) : t[i] \in Digits \cup {"."}
  /\ \E i \in 1..Len(t) : t[i] \in Digits
  /\ Cardinality({i \in 1..Len(t) : t[i] = "."}) <= 1

ParseFloat(s) ==
  LET t == Strip(s) IN
  Float(IF \E i \in 1..Len(t) : t[i] = "." THEN t ELSE t \o <<".", "0">>)

Str(v) ==
  IF v = None THEN <<"N","o","n","e">>
  ELSE IF IsFloat(v) THEN FloatBody(v)
  ELSE v

----------------------------------------------------------------------------
(* Python dicts: insertion-ordered sequences of <<key, value>> pairs *)

DictHas(d, k) == \E i \in 1..Len(d) : d[i][1] = k

DictGet(d, k) ==
  IF DictHas(d, k) THEN d[CHOOSE i \in 1..Len(d) : d[i][1] = k][2] ELSE None

DictSet(d, k, v) ==
  IF DictHas(d, k)
  THEN [i \in 1..Len(d) |-> IF d[i][1] = k THEN <<k, v>> ELSE d[i]]
  ELSE Append(d, <<k, v>>)

DictKeys(d) == {d[i][1] : i \in 1..Len(d)}

SetMin(S) == CHOOSE x \in S : \A y \in S : x <= y

----------------------------------------------------------------------------
(* column_mapping.py *)

WMS_COLUMN_MAP ==
  <<
     <<<<"I","t","e","m"," ","C","o","d","e">>,
       <<"i","t","e","m","_","c","o","d","e">>>>,
     <<<<"C","e","l","l"," ","N","o",".">>,
       <<"c","e","l","l","_","n","o">>>>,
     <<<<"P","r","o","d","u","c","t","i","o","n"," ","L","o","t"," ","N","o",".">>,
       <<"p","r","o","d","u","c","t","i","o","n","_","l","o","t","_","n","o">>>>,
     <<<<"T","o","t","."," ","Q","t","y",".">>,
       <<"t","o","t","_","q","t","y">>>>,
     <<<<"I","n","b","."," ","D","a","t","e">>,
       <<"i","n","b","_","d","a","t","e">>>>,
     <<<<"V","a","l","i","d"," ","D","a","t","e">>,
       <<"v","a","l","i","d","_","d","a","t","e">>>>,
     <<<<"U","L","D"," ","I","D">>,
       <<"u","l","d","_","i","d">>>>,
     <<<<"S","o","u","r","c","e"," ","N","o",".">>,
       <<"s","o","u","r","c","e","_","n","o">>>>,
     <<<<"L","o","t"," ","A","t","t","r","."," ","5">>,
       <<"l","o","t","_","a","t","t","r","_","5">>>>,
     <<<<"L","o","t"," ","A","t","t","r","."," ","6">>,
       <<"l","o","t","_","a","t","t","r","_","6">>>>,
     <<<<"I","t","e","m"," ","T","c","d">>,
       <<"i","t","e","m","_","t","c","d">>>>,
     <<<<"I","t","e","m"," ","G","c","d">>,
       <<"i","t","e","m","_","g","c","d">>>>,
     <<<<"I","t","e","m"," ","G","c","d"," ","N","m">>,
       <<"i","t","e","m","_","g","c","d","_","n","m">>>>,
     <<<<"I","t","e","m"," ","S","t","a","t","u","s">>,
       <<"i","t","e","m","_","s","t","a","t","u","s">>>>,
     <<<<"Z","o","n","e"," ","C","d">>,
       <<"z","o","n","e","_","c","d">>>>,
     <<<<"E","x","c","h","g","."," ","A","v","l","b","."," ","Q","t","y">>,
       <<"e","x","c","h","g","_","a","v","l","b","_","q","t","y">>>>,
     <<<<"E","x","c","h","g","."," ","T","o","t","."," ","Q","t","y",".">>,
       <<"e","x","c","h","g","_","t","o","t","_","q","t","y">>>>,
     <<<<"A","v","a","i","l","a","b","l","e"," ","Q","t","y",".">>,
       <<"a","v","a","i","l","a","b","l","e","_","q","t","y">>>>,
     <<<<"U","n","i","t">>,
       <<"u","n","i","t">>>>,
     <<<<"E","x","c","h","g","."," ","U","n","i","t">>,
       <<"e","x","c","h","g","_","u","n","i","t">>>>,
     <<<<"P","r","o","d","."," ","D","a","t","e">>,
       <<"p","r","o","d","_","d","a","t","e">>>>,
     <<<<"V","o","l","u","m","e">>,
       <<"v","o","l","u","m","e">>>>,
     <<<<"W","e","i","g","h","t">>,
       <<"w","e","i","g","h","t">>>>,
     <<<<"A","m","o","u","n","t">>,
       <<"a","m","o","u","n","t">>>>,
     <<<<"S","t","o","r","e","r"," ","N","m">>,
       <<"s","t","o","r","e","r","_","n","m">>>>,
     <<<<"A","l","t","."," ","C","o","d","e">>,
       <<"a","l","t","_","c","o","d","e">>>>,
     <<<<"C","o","m","m","e","n","t">>,
       <<"c","o","m","m","e","n","t">>>>,
     <<<<"L","o","t"," ","A","t","t","r","."," ","1">>,
       <<"l","o","t","_","a","t","t","r","_","1">>>>,
     <<<<"L","o","t"," ","A","t","t","r","."," ","2">>,
       <<"l","o","t","_","a","t","t","r","_","2">>>>,
     <<<<"L","o","t"," ","A","t","t","r","."," ","3">>,
       <<"l","o","t","_","a","t","t","r","_","3">>>>,
     <<<<"L","o","t"," ","A","t","t","r","."," ","4">>,
       <<"l","o","t","_","a","t","t","r","_","4">>>>,
     <<<<"W","/","H"," ","I","t","e","m"," ","T","y","p","e">>,
       <<"w","h","_","i","t","e","m","_","t","y","p","e">>>>,
     <<<<"I","t","e","m"," ","U","s","e","r"," ","C","o","l","3">>,
       <<"i","t","e","m","_","u","s","e","r","_","c","o","l","3">>>>,
     <<<<"I","t","e","m"," ","U","s","e","r"," ","C","o","l","4">>,
       <<"i","t","e","m","_","u","s","e","r","_","c","o","l","4">>>>,
     <<<<"I","t","e","m"," ","U","s","e","r"," ","C","o","l","5">>,
       <<"i","t","e","m","_","u","s","e","r","_","c","o","l","5">>>>,
     <<<<"D","e","s","c">>,
       <<"d","e","s","c","r","i","p","t","i","o","n">>>>,
     <<<<"L","o","t"," ","N","o",".">>,
       <<"l","o","t","_","n","o">>>>,
     <<<<"I","t","e","m"," ","N","m">>,
       <<"i","t","e","m","_","n","m">>>>,
     <<<<"S","u","p","p","l","i","e","r"," ","C","o","d","e">>,
       <<"s","u","p","p","l","i","e","r","_","c","o","d","e">>>>,
     <<<<"B","O","E"," ","N","o",".">>,
       <<"b","o","e","_","n","o">>>>
  >>

SAP_COLUMN_MAP ==
  <<
     <<<<"P","l","a","n","t">>,
       <<"p","l","a","n","t">>>>,
     <<<<"S","t","o","r","a","g","e"," ","l","o","c","a","t","i","o","n">>,
       <<"s","t","o","r","a","g","e","_","l","o","c","a","t","i","o","n">>>>,
     <<<<"M","a","t","e","r","i","a","l">>,
       <<"m","a","t","e","r","i","a","l">>>>,
     <<<<"M","a","t","e","r","i","a","l"," ","D","e","s","c","r","i","p","t","i","o","n">>,
       <<"m","a","t","e","r","i","a","l","_","d","e","s","c","r","i","p","t","i","o","n">>>>,
     <<<<"B","a","t","c","h">>,
       <<"b","a","t","c","h">>>>,
     <<<<"S","t","o","c","k"," ","S","e","g","m","e","n","t">>,
       <<"s","t","o","c","k","_","s","e","g","m","e","n","t">>>>,
     <<<<"U","n","r","e","s","t","r","i","c","t","e","d">>,
       <<"u","n","r","e","s","t","r","i","c","t","e","d","_","q","t","y">>>>,
     <<<<"Q","u","a","l","i","t","y"," ","I","n","s","p","e","c","t","i","o","n">>,
       <<"q","u","a","l","i","t","y","_","i","n","s","p","e","c","t","i","o","n","_","q","t","y">>>>,
     <<<<"B","l","o","c","k","e","d">>,
       <<"b","l","o","c","k","e","d","_","q","t","y">>>>,
     <<<<"R","e","t","u","r","n","s">>,
       <<"r","e","t","u","r","n","s","_","q","t","y">>>>,
     <<<<"T","r","a","n","s","i","t"," ","a","n","d"," ","T","r","a","n","s","f","e","r">>,
       <<"t","r","a","n","s","i","t","_","a","n","d","_","t","r","a","n","s","f","e","r">>>>,
     <<<<"B","a","s","e"," ","U","n","i","t"," ","o","f"," ","M","e","a","s","u","r","e">>,
       <<"b","a","s","e","_","u","n","i","t","_","o","f","_","m","e","a","s","u","r","e">>>>,
     <<<<"V","a","l","u","e"," ","U","n","r","e","s","t","r","i","c","t","e","d">>,
       <<"v","a","l","u","e","_","u","n","r","e","s","t","r","i","c","t","e","d">>>>,
     <<<<"C","u","r","r","e","n","c","y">>,
       <<"c","u","r","r","e","n","c","y">>>>,
     <<<<"S","t","o","c","k"," ","i","n"," ","T","r","a","n","s","i","t">>,
       <<"s","t","o","c","k","_","i","n","_","t","r","a","n","s","i","t">>>>,
     <<<<"N","a","m","e"," ","1">>,
       <<"n","a","m","e","_","1">>>>,
     <<<<"M","a","t","e","r","i","a","l"," ","t","y","p","e">>,
       <<"m","a","t","e","r","i","a","l","_","t","y","p","e">>>>,
     <<<<"M","a","t","e","r","i","a","l"," ","G","r","o","u","p">>,
       <<"m","a","t","e","r","i","a","l","_","g","r","o","u","p">>>>,
     <<<<"D","F"," ","s","t","o","r","."," ","l","o","c","."," ","l","e","v","e","l">>,
       <<"d","f","_","s","t","o","r","_","l","o","c","_","l","e","v","e","l">>>>,
     <<<<"R","e","s","t","r","i","c","t","e","d","-","U","s","e"," ","S","t","o","c","k">>,
       <<"r","e","s","t","r","i","c","t","e","d","_","u","s","e","_","s","t","o","c","k">>>>,
     <<<<"V","a","l","u","a","t","e","d"," ","G","o","o","d","s"," ","R","e","c","e","i","p","t"," ","B","l","o","c","k","e","d"," ","S","t","o","c","k">>,
       <<"v","a","l","u","a","t","e","d","_","g","o","o","d","s","_","r","e","c","e","i","p","t","_","b","l","o","c","k","e","d","_","s","t","o","c","k">>>>,
     <<<<"T","i","e","d"," ","E","m","p","t","i","e","s">>,
       <<"t","i","e","d","_","e","m","p","t","i","e","s">>>>,
     <<<<"I","n"," ","t","r","a","n","s","f","e","r"," ","(","p","l","a","n","t",")">>,
       <<"i","n","_","t","r","a","n","s","f","e","r","_","p","l","a","n","t">>>>,
     <<<<"V","a","l","."," ","i","n"," ","T","r","a","n","s",".","/","T","f","r">>,
       <<"v","a","l","_","i","n","_","t","r","a","n","s","_","t","f","r">>>>,
     <<<<"V","a","l","u","e"," ","R","e","s","t","r","i","c","t","e","d">>,
       <<"v","a","l","u","e","_","r","e","s","t","r","i","c","t","e","d">>>>,
     <<<<"V","a","l","."," ","G","R"," ","B","l","o","c","k","e","d"," ","S","t",".">>,
       <<"v","a","l","_","g","r","_","b","l","o","c","k","e","d","_","s","t">>>>,
     <<<<"V","a","l","u","e"," ","i","n"," ","Q","u","a","l","I","n","s","p",".">>,
       <<"v","a","l","u","e","_","i","n","_","q","u","a","l","i","n","s","p">>>>,
     <<<<"V","a","l","."," ","T","i","e","d"," ","E","m","p","t","i","e","s">>,
       <<"v","a","l","_","t","i","e","d","_","e","m","p","t","i","e","s">>>>,
     <<<<"V","a","l","u","e"," ","B","l","o","c","k","e","d","S","t","o","c","k">>,
       <<"v","a","l","u","e","_","b","l","o","c","k","e","d","s","t","o","c","k">>>>,
     <<<<"V","a","l","u","e"," ","R","e","t","s"," ","B","l","o","c","k","e","d">>,
       <<"v","a","l","u","e","_","r","e","t","s","_","b","l","o","c","k","e","d">>>>,
     <<<<"V","a","l","u","e"," ","i","n"," ","T","r","a","n","s","i","t">>,
       <<"v","a","l","u","e","_","i","n","_","t","r","a","n","s","i","t">>>>,
     <<<<"V","a","l","u","e"," ","i","n"," ","S","t","o","c","k"," ","T","f","r">>,
       <<"v","a","l","u","e","_","i","n","_","s","t","o","c","k","_","t","f","r">>>>
  >>

WMS_NUMERIC_COLUMNS ==
  {<<"a","m","o","u","n","t">>,
   <<"a","v","a","i","l","a","b","l","e","_","q","t","y">>,
   <<"e","x","c","h","g","_","a","v","l","b","_","q","t","y">>,
   <<"e","x","c","h","g","_","t","o","t","_","q","t","y">>,
   <<"t","o","t","_","q","t","y">>,
   <<"v","o","l","u","m","e">>,
   <<"w","e","i","g","h","t">>}

SAP_NUMERIC_COLUMNS ==
  {<<"b","l","o","c","k","e","d","_","q","t","y">>,
   <<"i","n","_","t","r","a","n","s","f","e","r","_","p","l","a","n","t">>,
   <<"q","u","a","l","i","t","y","_","i","n","s","p","e","c","t","i","o","n","_","q","t","y">>,
   <<"r","e","s","t","r","i","c","t","e","d","_","u","s","e","_","s","t","o","c","k">>,
   <<"r","e","t","u","r","n","s","_","q","t","y">>,
   <<"s","t","o","c","k","_","i","n","_","t","r","a","n","s","i","t">>,
   <<"t","i","e","d","_","e","m","p","t","i","e","s">>,
   <<"t","r","a","n","s","i","t","_","a","n","d","_","t","r","a","n","s","f","e","r">>,
   <<"u","n","r","e","s","t","r","i","c","t","e","d","_","q","t","y">>,
   <<"v","a","l","_","g","r","_","b","l","o","c","k","e","d","_","s","t">>,
   <<"v","a","l","_","i","n","_","t","r","a","n","s","_","t","f","r">>,
   <<"v","a","l","_","t","i","e","d","_","e","m","p","t","i","e","s">>,
   <<"v","a","l","u","a","t","e","d","_","g","o","o","d","s","_","r","e","c","e","i","p","t","_","b","l","o","c","k","e","d","_","s","t","o","c","k">>,
   <<"v","a","l","u","e","_","b","l","o","c","k","e","d","s","t","o","c","k">>,
   <<"v","a","l","u","e","_","i","n","_","q","u","a","l","i","n","s","p">>,
   <<"v","a","l","u","e","_","i","n","_","s","t","o","c","k","_","t","f","r">>,
   <<"v","a","l","u","e","_","i","n","_","t","r","a","n","s","i","t">>,
   <<"v","a","l","u","e","_","r","e","s","t","r","i","c","t","e","d">>,
   <<"v","a","l","u","e","_","r","e","t","s","_","b","l","o","c","k","e","d">>,
   <<"v","a","l","u","e","_","u","n","r","e","s","t","r","i","c","t","e","d">>}

StaticTarget(table, header) ==
  IF \E i \in 1..Len(table) : table[i][1] = header
  THEN table[CHOOSE i \in 1..Len(table) : table[i][1] = header][2]
  ELSE None

clean_numeric_value(value) ==
  IF value = None \/ value = <<>> THEN None
  ELSE LET value_str == Strip(Str(value)) IN
       IF value_str = <<>> THEN None
       ELSE LET cleaned == RemoveChars(value_str, {","}) IN
            IF ParsesAsFloat(cleaned) THEN ParseFloat(cleaned) ELSE None

normalize_column_name(header) ==
  LET n1 == Lower(header)
      n2 == ReplaceChar(ReplaceChar(n1, " ", "_"), "/", "_")
      n3 == RemoveChars(n2, {"."})
      n4 == RemoveChars(n3, {"(", ")"})
      n5 == SelectSeq(n4, LAMBDA c :
               c \in Digits \cup {"_"} \cup {LowerAZ[i] : i \in 1..26})
      n6 == StripSet(n5, {"_"})
  IN CollapseUnderscores(n6)

find_column_by_name(sheet_row, target_name) ==
  IF ~Truthy(target_name) THEN None
  ELSE IF DictHas(sheet_row, target_name) THEN target_name
  ELSE LET target_lower == Strip(Lower(target_name))
           hits == {i \in 1..Len(sheet_row) :
                      Strip(Lower(sheet_row[i][1])) = target_lower}
       IN IF hits = {} THEN None ELSE sheet_row[SetMin(hits)][1]

(* The static pass of map_wms_row / map_sap_row over sheet_row.items():
   headers consumed by the classification are skipped, headers of the
   dictionary are written under their PostgreSQL name (numeric columns
   cleaned), every other header is dropped. *)
RECURSIVE StaticPass(_, _, _, _, _, _)
StaticPass(sheet_row, i, mapped, mapped_columns, table, numeric) ==
  IF i > Len(sheet_row) THEN mapped
  ELSE LET sheet_header == sheet_row[i][1]
           value == sheet_row[i][2]
           pg_column == StaticTarget(table, sheet_header)
           next ==
             IF sheet_header \in mapped_columns THEN mapped
             ELSE IF pg_column = None THEN mapped
             ELSE IF pg_column \in numeric
                  THEN DictSet(mapped, pg_column, clean_numeric_value(value))
                  ELSE DictSet(mapped, pg_column, value)
       IN StaticPass(sheet_row, i + 1, next, mapped_columns, table, numeric)

SetIf(cond, mapped, k, v) == IF cond THEN DictSet(mapped, k, v) ELSE mapped

(* map_wms_row once the classification columns have been looked up *)
MapWmsColumns(sheet_row, zone_col, location_col, lot_col, item_col, qty_col) ==
  LET m1 == SetIf(Truthy(zone_col), <<>>,
                  normalize_column_name(zone_col), DictGet(sheet_row, zone_col))
      m2 == SetIf(Truthy(location_col), m1,
                  <<"c","e","l","l","_","n","o">>, DictGet(sheet_row, location_col))
      m3 == SetIf(Truthy(lot_col), m2,
                  normalize_column_name(lot_col), DictGet(sheet_row, lot_col))
      m4 == SetIf(Truthy(item_col), m3,
                  normalize_column_name(item_col), DictGet(sheet_row, item_col))
      m5 == SetIf(Truthy(qty_col), m4,
                  normalize_column_name(qty_col),
                  clean_numeric_value(DictGet(sheet_row, qty_col)))
      mapped_columns ==
        {c \in {zone_col, lot_col, item_col, qty_col} : Truthy(c)}
  IN StaticPass(sheet_row, 1, m5, mapped_columns,
                WMS_COLUMN_MAP, WMS_NUMERIC_COLUMNS)

map_wms_row(sheet_row, classification) ==
  MapWmsColumns(sheet_row,
                find_column_by_name(sheet_row, classification.zone_col),
                find_column_by_name(sheet_row, classification.location_col),
                find_column_by_name(sheet_row, classification.lot_col),
                find_column_by_name(sheet_row, classification.item_col),
                find_column_by_name(sheet_row, classification.qty_col))

(* map_sap_row once the classification columns have been looked up *)
MapSapColumns(sheet_row, zone_col, location_col, lot_col, item_col, qty_col, blocked_col, returns_col, qi_col, src_loc_col, unrestrict_col) ==
  LET Num(c) == clean_numeric_value(DictGet(sheet_row, c))
      m1 == SetIf(Truthy(zone_col), <<>>,
                  normalize_column_name(zone_col), DictGet(sheet_row, zone_col))
      m2 == SetIf(Truthy(location_col), m1,
                  <<"s","t","o","r","a","g","e","_","l","o","c","a","t","i","o","n">>,
                  DictGet(sheet_row, location_col))
      m3 == SetIf(Truthy(lot_col), m2,
                  <<"b","a","t","c","h">>, DictGet(sheet_row, lot_col))
      m4 == SetIf(Truthy(item_col), m3,
                  <<"m","a","t","e","r","i","a","l">>, DictGet(sheet_row, item_col))
      m5 == SetIf(Truthy(qty_col), m4,
                  <<"u","n","r","e","s","t","r","i","c","t","e","d","_","q","t","y">>,
                  Num(qty_col))
      m6 == SetIf(Truthy(blocked_col), m5,
                  <<"b","l","o","c","k","e","d","_","q","t","y">>, Num(blocked_col))
      m7 == SetIf(Truthy(returns_col), m6,
                  <<"r","e","t","u","r","n","s","_","q","t","y">>, Num(returns_col))
      m8 == SetIf(Truthy(qi_col), m7,
                  <<"q","u","a","l","i","t","y","_","i","n","s","p","e","c","t","i","o","n","_","q","t","y">>,
                  Num(qi_col))
      m9 == SetIf(Truthy(src_loc_col), m8,
                  <<"s","t","o","r","a","g","e","_","l","o","c","a","t","i","o","n">>,
                  DictGet(sheet_row, src_loc_col))
      m10 == SetIf(Truthy(unrestrict_col), m9,
                  <<"u","n","r","e","s","t","r","i","c","t","e","d","_","q","t","y">>,
                  Num(unrestrict_col))
      mapped_columns ==
        {c \in {zone_col, location_col, lot_col, item_col, qty_col,
                blocked_col, returns_col, qi_col, src_loc_col, unrestrict_col} :
           Truthy(c)}
  IN StaticPass(sheet_row, 1, m10, mapped_columns,
                SAP_COLUMN_MAP, SAP_NUMERIC_COLUMNS)

(* the optional columns are looked up only when the classification names them *)
FindOptional(sheet_row, target_name) ==
  IF Truthy(target_name) THEN find_column_by_name(sheet_row, target_name) ELSE None

map_sap_row(sheet_row, classification) ==
  MapSapColumns(sheet_row,
                find_column_by_name(sheet_row, classification.zone_col),
                find_column_by_name(sheet_row, classification.location_col),
                find_column_by_name(sheet_row, classification.lot_col),
                find_column_by_name(sheet_row, classification.item_col),
                find_column_by_name(sheet_row, classification.qty_col),
                FindOptional(sheet_row, classification.blocked_col),
                FindOptional(sheet_row, classification.returns_col),
                FindOptional(sheet_row, classification.quality_inspection_col),
                FindOptional(sheet_row, classification.source_location_col),
                FindOptional(sheet_row, classification.unrestricted_col))

get_split_key(mapped_row, classification) ==
  IF ~classification.split_enabled \/ ~Truthy(classification.split_by_column)
  THEN None
  ELSE LET split_col_normalized ==
             normalize_column_name(classification.split_by_column)
           value == DictGet(mapped_row, split_col_normalized)
       IN IF Truthy(value) THEN Strip(Str(value)) ELSE None

----------------------------------------------------------------------------
(* sheets.py *)

NUMERIC_KEYS ==
  { <<"T","o","t","."," ","Q","t","y",".">>,
    <<"A","v","a","i","l","a","b","l","e"," ","Q","t","y",".">>,
    <<"E","x","c","h","g","."," ","A","v","l","b","."," ","Q","t","y",".">>,
    <<"E","x","c","h","g","."," ","T","o","t","."," ","Q","t","y",".">>,
    <<"V","o","l","u","m","e">>,
    <<"W","e","i","g","h","t">>,
    <<"A","m","o","u","n","t">> }

DATE_KEYS ==
  { <<"I","n","b","."," ","D","a","t","e">>,
    <<"V","a","l","i","d"," ","D","a","t","e">>,
    <<"P","r","o","d","."," ","D","a","t","e">> }

to_number(value) ==
  IF value = None \/ value = <<>> THEN None
  ELSE LET clean_value == RemoveChars(Str(value), {","}) IN
       IF ParsesAsFloat(clean_value) THEN ParseFloat(clean_value) ELSE None

(* An ISO date YYYY-MM-DD is kept, MM/DD/YYYY is rewritten to it, anything
   else becomes None. *)
IsDigits(s) == \A i \in 1..Len(s) : s[i] \in Digits

to_iso_date(value) ==
  IF ~Truthy(value) THEN None
  ELSE LET d == Strip(Str(value)) IN
       IF /\ Len(d) = 10 /\ d[5] = "-" /\ d[8] = "-"
          /\ IsDigits(SubSeq(d, 1, 4)) /\ IsDigits(SubSeq(d, 6, 7))
          /\ IsDigits(SubSeq(d, 9, 10))
       THEN d
       ELSE IF /\ Len(d) = 10 /\ d[3] = "/" /\ d[6] = "/"
               /\ IsDigits(SubSeq(d, 1, 2)) /\ IsDigits(SubSeq(d, 4, 5))
               /\ IsDigits(SubSeq(d, 7, 10))
            THEN SubSeq(d, 7, 10) \o <<"-">> \o SubSeq(d, 1, 2)
                 \o <<"-">> \o SubSeq(d, 4, 5)
            ELSE None

coerce_types(obj) ==
  [i \in 1..Len(obj) |->
     LET key == obj[i][1]
         value == obj[i][2]
     IN <<key,
          IF key \in NUMERIC_KEYS THEN to_number(value)
          ELSE IF key \in DATE_KEYS THEN to_iso_date(value)
          ELSE IF value = None THEN None
          ELSE Strip(Str(value))>>]

CellOr(cell) == IF Truthy(cell) THEN cell ELSE <<>>

RowObject(header, row) ==
  LET RECURSIVE Build(_, _)
      Build(col_index, obj) ==
        IF col_index > Len(header) THEN obj
        ELSE Build(col_index + 1,
                   DictSet(obj, header[col_index],
                           IF col_index <= Len(row) THEN row[col_index] ELSE None))
  IN Build(1, <<>>)

arrays_to_objects(values) ==
  IF values = <<>> \/ values[1] = <<>> THEN <<>>
  ELSE LET header == [i \in 1..Len(values[1]) |-> Strip(Str(values[1][i]))]
           data == Tail(values)
           kept == SelectSeq(data, LAMBDA row :
                     \E c \in 1..Len(row) : Strip(CellOr(row[c])) # <<>>)
       IN [r \in 1..Len(kept) |-> RowObject(header, kept[r])]

normalize(values) ==
  LET rows == arrays_to_objects(values)
  IN [r \in 1..Len(rows) |-> coerce_types(rows[r])]

----------------------------------------------------------------------------
(* models_extended.py *)

ClassificationConfig ==
  [item_col |-> None, lot_col |-> None, qty_col |-> None,
   zone_col |-> None, location_col |-> None,
   split_enabled |-> FALSE, split_by_column |-> None,
   source_location_col |-> None, unrestricted_col |-> None,
   quality_inspection_col |-> None, blocked_col |-> None,
   returns_col |-> None]

(* a classification column that is null in the sheet_sources row *)
NullClassification == [null |-> TRUE]

----------------------------------------------------------------------------
(* ingest_new.py: ingest_source *)

WMS_BATCH_SIZE == 3000

SAP_BATCH_SIZE == 1000

K_item_code == <<"i","t","e","m","_","c","o","d","e">>

K_material == <<"m","a","t","e","r","i","a","l">>

(* The code of a row: mapped_row.get('item_code') or mapped_row.get('material') *)
ItemCodeOf(mapped_row) ==
  IF Truthy(DictGet(mapped_row, K_item_code))
  THEN DictGet(mapped_row, K_item_code)
  ELSE DictGet(mapped_row, K_material)

(* ingest_new.py:261-268: the `continue` of the missing-code branch is
   commented out, so the branch counts the row and goes on to emit it. *)
SkipsRowWithoutItemCode == FALSE

MapRow(source_type, norm_row, classification) ==
  IF source_type = "wms"
  THEN map_wms_row(norm_row, classification)
  ELSE map_sap_row(norm_row, classification)

(* One iteration of the loop over normalized_rows: <<>> when the row is
   skipped, otherwise the one-element sequence holding the emitted row.
   fetched_at (a wall-clock stamp) is not modelled. *)
EmitRow(source, mapped_row, item_code, split_key, batch_id, split_value) ==
  IF ~Truthy(item_code) /\ SkipsRowWithoutItemCode THEN <<>>
  ELSE IF Truthy(split_value) /\ split_key # split_value THEN <<>>
  ELSE << [cols |-> mapped_row,
           source_id |-> source.id,
           source_type |-> source.type,
           split_key |-> split_key,
           batch_id |-> batch_id] >>

FilterRow(source, mapped_row, classification, batch_id, split_value) ==
  EmitRow(source, mapped_row, ItemCodeOf(mapped_row),
          get_split_key(mapped_row, classification), batch_id, split_value)

PrepareRow(source, norm_row, classification, batch_id, split_value) ==
  FilterRow(source, MapRow(source.type, norm_row, classification),
            classification, batch_id, split_value)

RECURSIVE PrepareRows(_, _, _, _, _, _)
PrepareRows(source, normalized_rows, i, classification, batch_id, split_value) ==
  IF i > Len(normalized_rows) THEN <<>>
  ELSE PrepareRow(source, normalized_rows[i], classification, batch_id, split_value)
       \o PrepareRows(source, normalized_rows, i + 1, classification,
                      batch_id, split_value)

(* insert_wms_rows / insert_sap_rows: the rows go to the table in batches of
   batch_size; a batch whose insert raises is logged and skipped.
   failed is the set of batch numbers (from 0) whose insert raises. *)
RECURSIVE InsertBatches(_, _, _, _)
InsertBatches(rows, i, batch_size, failed) ==
  IF i >= Len(rows) THEN <<>>
  ELSE LET last == IF i + batch_size < Len(rows) THEN i + batch_size ELSE Len(rows)
           batch == SubSeq(rows, i + 1, last)
       IN (IF (i \div batch_size) \in failed THEN <<>> ELSE batch)
          \o InsertBatches(rows, i + batch_size, batch_size, failed)

insert_rows(source_type, rows, failed) ==
  InsertBatches(rows, 0,
                IF source_type = "wms" THEN WMS_BATCH_SIZE ELSE SAP_BATCH_SIZE,
                failed)

(* update_materials_catalog: the distinct codes of the rows (item_code for
   WMS, material for SAP), upserted when the catalog store accepts them. *)
CatalogCodes(rows, source_type) ==
  LET CodeOf(r) == DictGet(r.cols, IF source_type = "wms" THEN K_item_code
                                                           ELSE K_material)
  IN {CodeOf(rows[i]) : i \in {j \in 1..Len(rows) : Truthy(CodeOf(rows[j]))}}

update_materials_catalog(rows, source_type, catalog_ok) ==
  IF rows = <<>> \/ ~catalog_ok THEN {} ELSE CatalogCodes(rows, source_type)

SourceError(source, msg) == [label |-> source.label, msg |-> msg]

Missing == <<"Missing">>

SourceResult(raised, n, errs, emitted, inserted, mats) ==
  [raised |-> raised, rows_processed |-> n, errors |-> errs,
   rows_to_insert |-> emitted, inserted |-> inserted, materials |-> mats]

SourceExceptionPropagates(source) ==
  SourceResult(TRUE, 0, <<>>, <<>>, <<>>, {})

(* lines 327-332: an exception raised inside the try block is caught and
   becomes an error entry with the source label; rows_processed is still 0 *)
SourceException(source) ==
  SourceResult(FALSE, 0, <<SourceError(source, "exception")>>, <<>>, <<>>, {})

(* ingest_source(source, warehouse_code, batch_id, dry_run, split_value).
   env is what the collaborators do in this call:
     env.fetch_raises  - fetch_sheet_values raises
     env.values        - the sheet it returns otherwise (None or a 2-D array)
     env.failed        - the insert batches that raise
     env.catalog_ok    - the materials upsert succeeds *)
WriteResult(source, rows_to_insert, inserted, env) ==
  SourceResult(FALSE, Len(inserted), <<>>, rows_to_insert, inserted,
               update_materials_catalog(rows_to_insert, source.type,
                                        env.catalog_ok))

(* lines 308-325: the write, or the count of a dry run *)
WriteRows(source, rows_to_insert, dry_run, env) ==
  IF ~dry_run /\ rows_to_insert # <<>>
  THEN WriteResult(source, rows_to_insert,
                   insert_rows(source.type, rows_to_insert, env.failed), env)
  ELSE SourceResult(FALSE, Len(rows_to_insert), <<>>, rows_to_insert, <<>>, {})

(* lines 212-325: from the normalized rows on *)
IngestRows(source, normalized_rows, batch_id, dry_run, split_value, env) ==
  IF normalized_rows = <<>>
  THEN SourceResult(FALSE, 0,
         <<SourceError(source, "No valid rows after normalization")>>,
         <<>>, <<>>, {})
  ELSE IF source.classification = NullClassification
  THEN \* ClassificationConfig(**None) raises TypeError
       SourceException(source)
  ELSE WriteRows(source,
                 PrepareRows(source, normalized_rows, 1, source.classification,
                             batch_id, split_value),
                 dry_run, env)

ingest_source(source, batch_id, dry_run, split_value, env) ==
  IF source.label = Missing
  THEN \* source['label'] at line 137 is outside the try block
       SourceResult(TRUE, 0, <<>>, <<>>, <<>>, {})
  ELSE IF env.fetch_raises \/ Len(env.values) < 2
  THEN SourceResult(FALSE, 0, <<SourceError(source, "No data found")>>,
                    <<>>, <<>>, {})
  ELSE IngestRows(source, normalize(env.values), batch_id, dry_run,
                  split_value, env)

----------------------------------------------------------------------------
(* Bounds *)

MaxRuns == 1

MaxReloads == 2

MaxRows == 3

----------------------------------------------------------------------------
(* The world the orchestrator runs in: one warehouse, three sheet sources *)

S_1 == <<"S","1">>

S_2 == <<"S","2">>

S_3 == <<"S","3">>

S_9 == <<"S","9">>

H_ItemCode == <<"I","t","e","m"," ","C","o","d","e">>

H_CellNo == <<"C","e","l","l"," ","N","o",".">>

H_AvailableQty == <<"A","v","a","i","l","a","b","l","e"," ","Q","t","y",".">>

H_Desc == <<"D","e","s","c">>

H_Plant == <<"P","l","a","n","t">>

H_Material == <<"M","a","t","e","r","i","a","l">>

V_1000 == <<"1","0","0","0">>

V_2000 == <<"2","0","0","0">>

SplitBy(column) ==
  [ClassificationConfig EXCEPT !.split_enabled = TRUE, !.split_by_column = column]

(* rows of the sheet_sources table *)
SheetSources ==
  << [id |-> S_1, label |-> <<"W">>, type |-> "wms",
      classification |-> ClassificationConfig],
     [id |-> S_2, label |-> <<"P">>, type |-> "sap",
      classification |-> SplitBy(H_Plant)],
     [id |-> S_3, label |-> Missing, type |-> "wms",
      classification |-> ClassificationConfig] >>

WmsExampleSheet ==
  << <<H_ItemCode, H_CellNo, H_AvailableQty>>,
     << <<"A","1">>, <<"Z","-","0","1">>, <<"1","0">> >>,
     << <<"A","2">>, <<"Z","-","0","1">>, <<"5">> >>,
     << <<>>, <<"Z","-","0","2">>, <<"3">> >> >>

SapPlantSheet ==
  << <<H_Plant, H_Material>>,
     << V_1000, <<"M","1">> >>,
     << V_2000, <<"M","2">> >> >>

SheetOf(source_id) == IF source_id = S_2 THEN SapPlantSheet ELSE WmsExampleSheet

(* what the collaborators of one ingest_source call do *)
EnvChoices ==
  { [fetch_raises |-> FALSE, failed |-> {}, catalog_ok |-> TRUE],
    [fetch_raises |-> TRUE, failed |-> {}, catalog_ok |-> TRUE],
    [fetch_raises |-> FALSE, failed |-> {0}, catalog_ok |-> TRUE],
    [fetch_raises |-> FALSE, failed |-> {}, catalog_ok |-> FALSE] }

EnvOk == [fetch_raises |-> FALSE, failed |-> {}, catalog_ok |-> TRUE]

EnvFor(source_id, e) ==
  [fetch_raises |-> e.fetch_raises, values |-> SheetOf(source_id),
   failed |-> e.failed, catalog_ok |-> e.catalog_ok]

NoBinding == [none |-> TRUE]

Bind(key, type) == [key |-> key, type |-> type, split_value |-> None]

Binding(source_bindings, wms_ids, sap_ids) ==
  [source_bindings |-> source_bindings,
   wms_source_ids |-> wms_ids, sap_source_ids |-> sap_ids]

BindingChoices ==
  { NoBinding,
    Binding(<<>>, <<>>, <<>>),
    Binding(<<Bind(S_1, "wms")>>, <<>>, <<>>),
    Binding(<<Bind(S_2 \o <<":",":">> \o V_1000, "sap"), Bind(S_1, "wms")>>,
            <<>>, <<>>),
    Binding(<<Bind(S_3, "wms"), Bind(S_1, "wms"), Bind(S_9, "wms")>>,
            <<>>, <<>>),
    Binding(<<>>, <<S_1>>, <<S_2>>) }

TypeChoices == { {"wms"}, {"sap"}, {"wms", "sap"} }

DashboardKinds ==
  <<"inventory_stats", "zone_utilization", "user_defined_zones", "expiring_items">>

----------------------------------------------------------------------------
(* State *)

VARIABLES
  supabase,            \* the store client is configured
  binding,             \* the warehouse_bindings row of the warehouse, or NoBinding
  wms_raw_rows,        \* table wms_raw_rows (a bag of rows)
  sap_raw_rows,        \* table sap_raw_rows (a bag of rows)
  materials,           \* table materials (item codes)
  mv,                  \* location_inventory_summary_mv: the loads it reflects
  zone_quantities,     \* zone capacity cache: the loads its stock reflects
  inventory_snapshot,  \* inventory snapshot file: the loads it reflects
  dashboard_cache,     \* dashboard cache files, by kind
  next_batch,          \* batch ids handed out so far + 1
  pc,                  \* position of the ingest_warehouse_data call
  req,                 \* its arguments
  result,              \* its IngestResult
  tasks,               \* its ingest_source tasks
  debug_logs,          \* its local debug_logs list
  failed_steps,        \* the refresh steps that raised in this call
  pre,                 \* the persistent state when the call started
  raised,              \* an exception left ingest_warehouse_data
  srcIn,               \* ingest_source called on its own: the arguments
  srcOut,              \* and what it returned
  keyIn,               \* get_split_key called on its own: the arguments
  keyOut,              \* and what it returned
  warehouse_bindings,  \* table warehouse_bindings: the row of each warehouse
  capIn,               \* calculate_zone_capacity called on its own: the zone
  capOut,              \* and what it returned
  zones,               \* table zones with its items, as the query of line 89 reads it
  zone_capacities,     \* data/zone_capacities.json: <<zone id, zone data>> pairs
  zcall,               \* the last call on the ZoneCapacityManager and how it ended
  fnIn,                \* a function called on its own: its arguments
  fnOut,               \* and what it returned
  clock,               \* datetime.utcnow(), in units of ten minutes
  dash_files,          \* data/dashboard_cache/*.json with their timestamps, by kind
  dash_read,           \* the last read through the DashboardCacheManager
  snapshot_files,      \* data/inventory_snapshots/*.json, by warehouse
  raw_read             \* the last GET /raw/latest call and its response

wvars ==
  <<supabase, binding, wms_raw_rows, sap_raw_rows, materials, mv,
    zone_quantities, inventory_snapshot, dashboard_cache, next_batch, pc, req,
    result, tasks, debug_logs, failed_steps, pre, raised>>

kvars == <<keyIn, keyOut>>

bvars == <<warehouse_bindings>>

cvars == <<capIn, capOut>>

zvars == <<zones, zone_capacities, zcall>>

fvars == <<fnIn, fnOut>>

dvars == <<clock, dash_files, dash_read>>

rvars == <<snapshot_files, raw_read>>

xvars == <<kvars, bvars, cvars, zvars, fvars, dvars, rvars>>

svars == <<srcIn, srcOut, xvars>>

vars == <<wvars, svars>>

(* the rows of one insert, as they land in a table *)
RECURSIVE BagOf(_)
BagOf(rows) ==
  IF rows = <<>> THEN EmptyBag ELSE SetToBag({Head(rows)}) (+) BagOf(Tail(rows))

(* the loads a table holds: its <<source_id, batch_id>> pairs *)
Loads(table) == {<<r.source_id, r.batch_id>> : r \in BagToSet(table)}

IngestResult(batch_id) ==
  [batch_id |-> batch_id, sources_processed |-> 0, rows_inserted |-> 0,
   errors |-> <<>>, warnings |-> <<>>, debug_logs |-> <<>>]

Error(type, label, msg) == [type |-> type, label |-> label, msg |-> msg]

NoCache == [present |-> FALSE, fresh |-> FALSE, data |-> {}]

Persistent ==
  [wms |-> wms_raw_rows, sap |-> sap_raw_rows, materials |-> materials,
   mv |-> mv, zone_quantities |-> zone_quantities,
   inventory_snapshot |-> inventory_snapshot, dashboard_cache |-> dashboard_cache]

NoReq == [types |-> {}, dry_run |-> FALSE]

WInit ==
  /\ supabase \in BOOLEAN
  /\ binding \in BindingChoices
  /\ wms_raw_rows = EmptyBag
  /\ sap_raw_rows = EmptyBag
  /\ materials = {}
  /\ mv = {}
  /\ zone_quantities = {}
  /\ inventory_snapshot = {}
  /\ dashboard_cache = [k \in 1..Len(DashboardKinds) |-> NoCache]
  /\ next_batch = 1
  /\ pc = "idle"
  /\ req = NoReq
  /\ result = IngestResult(0)
  /\ tasks = <<>>
  /\ debug_logs = <<>>
  /\ failed_steps = {}
  /\ pre = Persistent
  /\ raised = FALSE

KIdle ==
  /\ keyIn = [none |-> TRUE]
  /\ keyOut = [none |-> TRUE]

(* the warehouses table *)
W_1 == <<"W", "1">>

W_2 == <<"W", "2">>

W_9 == <<"W", "9">>

Warehouses == {W_1, W_2}

NoRow == [present |-> FALSE, source_bindings |-> <<>>]

BIdle == warehouse_bindings = [w \in Warehouses |-> NoRow]

CIdle ==
  /\ capIn = [none |-> TRUE]
  /\ capOut = [none |-> TRUE]

(* ZoneCapacityResponse(zones=[], total_zones=0) *)
EmptyResponse == [zones |-> <<>>, total_zones |-> 0]

NoCall ==
  [op |-> "none", raised |-> FALSE, before |-> <<>>, save_failed |-> FALSE,
   failed_zone |-> 0, response |-> EmptyResponse, after_refresh |-> FALSE,
   refresh_before |-> <<>>]

ZIdle ==
  /\ zones = <<>>
  /\ zone_capacities = <<>>
  /\ zcall = NoCall

FIdle ==
  /\ fnIn = [none |-> TRUE]
  /\ fnOut = [none |-> TRUE]

(* an entry of data/dashboard_cache: {'cached_at': ..., 'data': ...}; a file
   that json.load cannot read has readable = FALSE *)
NoFile == [present |-> FALSE, readable |-> FALSE, cached_at |-> 0, data |-> {}]

NoStore == [wms |-> {}, sap |-> {}, mv |-> {}]

NoRead ==
  [k |-> 0, raised |-> FALSE, from_cache |-> FALSE, data |-> {}, at |-> 0,
   stored |-> NoFile, store |-> NoStore, save |-> "none"]

DIdle ==
  /\ clock = 0
  /\ dash_files = [k \in 1..Len(DashboardKinds) |-> NoFile]
  /\ dash_read = NoRead

(* data/inventory_snapshots/<warehouse>.json; a file that json.load cannot
   read has readable = FALSE *)
NoSnapshot == [present |-> FALSE, readable |-> FALSE, wms_data |-> <<>>, sap_data |-> <<>>]

NoRawRead == [called |-> FALSE]

RIdle ==
  /\ snapshot_files = NoSnapshot
  /\ raw_read = NoRawRead

XIdle == KIdle /\ BIdle /\ CIdle /\ ZIdle /\ FIdle /\ DIdle /\ RIdle

SrcIdle ==
  /\ srcIn = [none |-> TRUE]
  /\ srcOut = [none |-> TRUE]

SIdle == SrcIdle /\ XIdle

----------------------------------------------------------------------------
(* ingest_new.py: ingest_warehouse_data *)

HasSep(key) == \E i \in 1..(Len(key) - 1) : key[i] = ":" /\ key[i + 1] = ":"

SepPos(key) == SetMin({i \in 1..(Len(key) - 1) : key[i] = ":" /\ key[i + 1] = ":"})

(* bind_key.split('::', 1), or the bare key with the entry's split_value *)
ParseBindKey(b) ==
  IF HasSep(b.key)
  THEN [source_id |-> SubSeq(b.key, 1, SepPos(b.key) - 1),
        split_value |-> SubSeq(b.key, SepPos(b.key) + 2, Len(b.key)),
        type |-> b.type]
  ELSE [source_id |-> b.key, split_value |-> b.split_value, type |-> b.type]

LegacyBindings(ids, type) ==
  [i \in 1..Len(ids) |-> [source_id |-> ids[i], split_value |-> None, type |-> type]]

(* lines 361-389: the source-split pairs of the requested types *)
SourceBindingsToProcess(b, types) ==
  LET parsed == [i \in 1..Len(b.source_bindings) |-> ParseBindKey(b.source_bindings[i])]
      new == SelectSeq(parsed, LAMBDA p : p.type \in types)
  IN IF new # <<>> THEN new
     ELSE (IF "wms" \in types THEN LegacyBindings(b.wms_source_ids, "wms") ELSE <<>>)
          \o (IF "sap" \in types THEN LegacyBindings(b.sap_source_ids, "sap") ELSE <<>>)

SourceKnown(source_id) == \E i \in 1..Len(SheetSources) : SheetSources[i].id = source_id

SourceById(source_id) ==
  SheetSources[CHOOSE i \in 1..Len(SheetSources) : SheetSources[i].id = source_id]

Task(source, split_value) ==
  [source |-> source, split_value |-> split_value, status |-> "pending",
   rows |-> 0, errors |-> <<>>, fetched |-> FALSE]

(* lines 413-434: one task per pair whose source exists and has a requested type *)
RECURSIVE BuildTasks(_, _, _)
BuildTasks(process, i, types) ==
  IF i > Len(process) THEN [tasks |-> <<>>, warnings |-> <<>>]
  ELSE LET rest == BuildTasks(process, i + 1, types)
           p == process[i]
       IN IF ~SourceKnown(p.source_id)
          THEN [rest EXCEPT !.warnings = <<p.source_id>> \o @]
          ELSE IF SourceById(p.source_id).type \notin types THEN rest
          ELSE [rest EXCEPT !.tasks = <<Task(SourceById(p.source_id), p.split_value)>> \o @]

MissingBindingAsWarning(r) ==
  [r EXCEPT !.warnings = Append(@, <<"N","o"," ","b","i","n","d","i","n","g">>)]

(* lines 354-359 *)
MissingBindingResult(r) ==
  [r EXCEPT !.errors = Append(@, Error("binding_error", None, "No binding found"))]

(* lines 391-393 *)
NoSourcesResult(r) ==
  [r EXCEPT !.warnings = Append(@, <<"N","o"," ","s","o","u","r","c","e","s">>)]

(* lines 452-457: the handler of the try block around lines 352-450 *)
GeneralErrorResult(r) ==
  [r EXCEPT !.errors = Append(@, Error("general_error", None, "exception"))]

(* line 473: the refresh steps run after a live WMS load that wrote rows *)
AfterTry(r, types, dry_run) ==
  IF "wms" \in types /\ r.rows_inserted > 0 /\ ~dry_run THEN "zone" ELSE "finish"

(* a gather that gives up at the first task that raised *)
RECURSIVE AggregateFailFast(_, _, _)
AggregateFailFast(r, ts, i) ==
  IF i > Len(ts) THEN r
  ELSE IF ts[i].status = "raised"
       THEN [r EXCEPT !.errors = Append(@, Error("task_error", None, "exception"))]
       ELSE AggregateFailFast(
              [r EXCEPT !.rows_inserted = @ + ts[i].rows,
                        !.sources_processed = @ + 1,
                        !.errors = @ \o [j \in 1..Len(ts[i].errors) |->
                             Error("source_error", ts[i].errors[j].label,
                                   ts[i].errors[j].msg)]],
              ts, i + 1)

(* lines 440-450: results are read in task order, whatever order they came in *)
RECURSIVE Aggregate(_, _, _)
Aggregate(r, ts, i) ==
  IF i > Len(ts) THEN r
  ELSE LET t == ts[i]
           next ==
             IF t.status = "raised"
             THEN [r EXCEPT !.errors = Append(@, Error("task_error", None, "exception"))]
             ELSE [r EXCEPT !.rows_inserted = @ + t.rows,
                            !.sources_processed = @ + 1,
                            !.errors = @ \o [j \in 1..Len(t.errors) |->
                                 Error("source_error", t.errors[j].label, t.errors[j].msg)]]
       IN Aggregate(next, ts, i + 1)

(* asyncio.gather over the tasks with return_exceptions=True returns when
   every task has returned or raised *)
GatherReady(ts) == \A i \in 1..Len(ts) : ts[i].status # "pending"

StartIngest(types, dry_run, db_ok, limit) ==
  /\ pc \in {"idle", "done"}
  /\ next_batch <= limit
  /\ LET r0 == IngestResult(next_batch)
         process == SourceBindingsToProcess(binding, types)
         built == BuildTasks(process, 1, types)
         early(r) == /\ result' = r
                     /\ pc' = "done"
                     /\ tasks' = <<>>
                     /\ debug_logs' = <<>>
         failed(r) == /\ result' = GeneralErrorResult(r)
                      /\ pc' = AfterTry(GeneralErrorResult(r), types, dry_run)
                      /\ tasks' = <<>>
                      /\ debug_logs' = << <<"conditions", "checked">> >>
     IN IF ~supabase THEN failed(r0)       \* get_warehouse_binding raises
        ELSE IF binding = NoBinding THEN early(MissingBindingResult(r0))
        ELSE IF process = <<>> THEN early(NoSourcesResult(r0))
        ELSE IF ~db_ok THEN failed(r0)     \* the sheet_sources query raises
        ELSE /\ result' = [r0 EXCEPT !.warnings = built.warnings]
             /\ pc' = "gather"
             /\ tasks' = built.tasks
             /\ debug_logs' = <<>>
  /\ req' = [types |-> types, dry_run |-> dry_run]
  /\ next_batch' = next_batch + 1
  /\ failed_steps' = {}
  /\ pre' = Persistent
  /\ UNCHANGED <<supabase, binding, wms_raw_rows, sap_raw_rows, materials, mv,
                 zone_quantities, inventory_snapshot, dashboard_cache, raised, svars>>

(* what one ingest_source call wrote to the store *)
StoreRows(source_type, out) ==
  /\ wms_raw_rows' = IF source_type = "wms"
                     THEN wms_raw_rows (+) BagOf(out.inserted)
                     ELSE wms_raw_rows
  /\ sap_raw_rows' = IF source_type = "sap"
                     THEN sap_raw_rows (+) BagOf(out.inserted)
                     ELSE sap_raw_rows
  /\ materials' = materials \cup out.materials

TaskOutcome(i, e, out) ==
  /\ tasks' = [tasks EXCEPT ![i] =
                 [@ EXCEPT !.status = IF out.raised THEN "raised" ELSE "returned",
                           !.rows = out.rows_processed,
                           !.errors = out.errors,
                           !.fetched = ~e.fetch_raises]]
  /\ StoreRows(tasks[i].source.type, out)

TaskComplete(i, e) ==
  /\ pc = "gather"
  /\ i \in 1..Len(tasks)
  /\ tasks[i].status = "pending"
  /\ TaskOutcome(i, e, ingest_source(tasks[i].source, result.batch_id, req.dry_run,
                                     tasks[i].split_value,
                                     EnvFor(tasks[i].source.id, e)))
  /\ UNCHANGED <<supabase, binding, mv, zone_quantities, inventory_snapshot,
                 dashboard_cache, next_batch, pc, req, result, debug_logs,
                 failed_steps, pre, raised, svars>>

Gather ==
  /\ pc = "gather"
  /\ GatherReady(tasks)
  /\ result' = Aggregate(result, tasks, 1)
  /\ pc' = AfterTry(result', req.types, req.dry_run)
  /\ debug_logs' = << <<"conditions", "checked">> >>
  /\ UNCHANGED <<supabase, binding, wms_raw_rows, sap_raw_rows, materials, mv,
                 zone_quantities, inventory_snapshot, dashboard_cache, next_batch,
                 req, tasks, failed_steps, pre, raised, svars>>

(* lines 476-553: each refresh step sits in its own try/except; the handler
   appends a note to debug_logs and control falls through to the next step *)
StepAfter(step) ==
  CASE step = "zone" -> "snapshot"
    [] step = "snapshot" -> "dashboard"
    [] step = "dashboard" -> "mv"
    [] step = "mv" -> "finish"

StepFailurePropagates(step) == "raised"

(* where control goes from the except clause of a refresh step *)
StepFailureTarget(step) == StepAfter(step)

StepFailureInvalidates(r, step) ==
  [r EXCEPT !.rows_inserted = 0,
            !.errors = Append(@, Error("refresh_error", None, step))]

(* what the except clause of a refresh step does to the IngestResult *)
StepFailureResult(r, step) == r

StepDone(step, ok) ==
  /\ pc = step
  /\ pc' = IF ok THEN StepAfter(step) ELSE StepFailureTarget(step)
  /\ raised' = (pc' = "raised")
  /\ result' = IF ok THEN result ELSE StepFailureResult(result, step)
  /\ debug_logs' = Append(debug_logs, <<step, IF ok THEN "completed" ELSE "failed">>)
  /\ failed_steps' = IF ok THEN failed_steps ELSE failed_steps \cup {step}

(* lines 476-482: manager.update_current_quantities([warehouse_code]) *)
RefreshZone(ok) ==
  /\ StepDone("zone", ok)
  /\ zone_quantities' = IF ok THEN Loads(wms_raw_rows) ELSE zone_quantities
  /\ UNCHANGED <<supabase, binding, wms_raw_rows, sap_raw_rows, materials, mv,
                 inventory_snapshot, dashboard_cache, next_batch, req, tasks, pre, svars>>

(* lines 486-507: snapshot_manager.update_inventory_snapshot(warehouse_code) *)
RefreshSnapshot(ok) ==
  /\ StepDone("snapshot", ok)
  /\ inventory_snapshot' = IF ok THEN Loads(wms_raw_rows) \cup Loads(sap_raw_rows)
                           ELSE inventory_snapshot
  /\ UNCHANGED <<supabase, binding, wms_raw_rows, sap_raw_rows, materials, mv,
                 zone_quantities, dashboard_cache, next_batch, req, tasks, pre, svars>>

----------------------------------------------------------------------------
(* dashboard_cache.py *)

(* _calculate_*: what each kind of entry is computed from *)
CalculateDashboard(k) ==
  CASE DashboardKinds[k] = "inventory_stats" ->
         Loads(wms_raw_rows) \cup Loads(sap_raw_rows)
    [] DashboardKinds[k] = "zone_utilization" -> mv
    [] DashboardKinds[k] = "user_defined_zones" -> mv
    [] DashboardKinds[k] = "expiring_items" -> Loads(wms_raw_rows)

(* _load_cache: the entry, when the file exists and is younger than 30 minutes *)
CacheHit(entry) == entry.present /\ entry.fresh

(* get_inventory_stats, get_zone_utilization, get_user_defined_zones,
   get_expiring_items: the cached entry when there is a hit, otherwise the
   entry is calculated and saved *)
GetDashboard(cache, k) ==
  IF CacheHit(cache[k]) THEN cache
  ELSE [cache EXCEPT ![k] = [present |-> TRUE, fresh |-> TRUE,
                             data |-> CalculateDashboard(k)]]

RECURSIVE GetDashboards(_, _, _)
GetDashboards(cache, k, last) ==
  IF k > last THEN cache ELSE GetDashboards(GetDashboard(cache, k), k + 1, last)

(* ingest_new.py lines 511-542: the four get_* calls in one try block;
   fail_at = 0 when none raises, otherwise the call whose calculation raises *)
RefreshDashboard(fail_at) ==
  /\ fail_at \in 0..Len(DashboardKinds)
  /\ fail_at # 0 =>
       ~CacheHit(GetDashboards(dashboard_cache, 1, fail_at - 1)[fail_at])
  /\ StepDone("dashboard", fail_at = 0)
  /\ dashboard_cache' =
       GetDashboards(dashboard_cache, 1,
                     IF fail_at = 0 THEN Len(DashboardKinds) ELSE fail_at - 1)
  /\ UNCHANGED <<supabase, binding, wms_raw_rows, sap_raw_rows, materials, mv,
                 zone_quantities, inventory_snapshot, next_batch, req, tasks, pre, svars>>

(* ingest_new.py lines 546-553: supabase.rpc('refresh_all_materialized_views') *)
RefreshMV(ok) ==
  /\ StepDone("mv", ok)
  /\ mv' = IF ok THEN Loads(wms_raw_rows) ELSE mv
  /\ UNCHANGED <<supabase, binding, wms_raw_rows, sap_raw_rows, materials,
                 zone_quantities, inventory_snapshot, dashboard_cache, next_batch,
                 req, tasks, pre, svars>>

(* ingest_new.py lines 558-564 *)
Finish ==
  /\ pc = "finish"
  /\ result' = [result EXCEPT !.debug_logs = debug_logs]
  /\ pc' = "done"
  /\ UNCHANGED <<supabase, binding, wms_raw_rows, sap_raw_rows, materials, mv,
                 zone_quantities, inventory_snapshot, dashboard_cache, next_batch,
                 req, tasks, debug_logs, failed_steps, pre, raised,
                 svars>>

(* app_extended.py GET /dashboard/...: one get_* call for the warehouse *)
DashboardRead(k, ok) ==
  /\ pc \in {"idle", "done"}
  /\ k \in 1..Len(DashboardKinds)
  /\ ~CacheHit(dashboard_cache[k])
  /\ ok
  /\ dashboard_cache' = GetDashboard(dashboard_cache, k)
  /\ UNCHANGED <<supabase, binding, wms_raw_rows, sap_raw_rows, materials, mv,
                 zone_quantities, inventory_snapshot, next_batch, pc, req, result,
                 tasks, debug_logs, failed_steps, pre, raised, svars>>

(* the 30 minutes of cache_duration pass *)
CacheExpire ==
  /\ pc \in {"idle", "done"}
  /\ \E k \in 1..Len(DashboardKinds) : dashboard_cache[k].fresh
  /\ dashboard_cache' =
       [k \in 1..Len(DashboardKinds) |-> [dashboard_cache[k] EXCEPT !.fresh = FALSE]]
  /\ UNCHANGED <<supabase, binding, wms_raw_rows, sap_raw_rows, materials, mv,
                 zone_quantities, inventory_snapshot, next_batch, pc, req, result,
                 tasks, debug_logs, failed_steps, pre, raised, svars>>

----------------------------------------------------------------------------
(* app_extended.py: POST /ingest/all *)

(* lines 378-412: every source of the requested types, in turn, unfiltered *)
AddLoad(s, types, out, rest) ==
  IF s.type \notin types THEN rest
  ELSE [wms |-> (IF s.type = "wms" THEN out.inserted ELSE <<>>) \o rest.wms,
        sap |-> (IF s.type = "sap" THEN out.inserted ELSE <<>>) \o rest.sap,
        materials |-> out.materials \cup rest.materials]

RECURSIVE IngestAllSources(_, _, _, _, _)
IngestAllSources(i, types, dry_run, batch_id, envs) ==
  IF i > Len(SheetSources) THEN [wms |-> <<>>, sap |-> <<>>, materials |-> {}]
  ELSE AddLoad(SheetSources[i], types,
               ingest_source(SheetSources[i], batch_id, dry_run, None,
                             EnvFor(SheetSources[i].id, envs[i])),
               IngestAllSources(i + 1, types, dry_run, batch_id, envs))

(* lines 338-356: the tables of the requested types are emptied first;
   clear_fails names the delete that raises ("none", "wms" or "sap"), which
   ends the request with status 500 *)
ClearAndLoad(clear_wms, clear_sap, load) ==
  /\ wms_raw_rows' =
       (IF clear_wms THEN EmptyBag ELSE wms_raw_rows) (+) BagOf(load.wms)
  /\ sap_raw_rows' =
       (IF clear_sap THEN EmptyBag ELSE sap_raw_rows) (+) BagOf(load.sap)
  /\ materials' = materials \cup load.materials

ingest_all(types, dry_run, clear_fails, envs, limit) ==
  /\ pc \in {"idle", "done"}
  /\ supabase
  /\ next_batch <= limit
  /\ clear_fails \in {"none"} \cup (IF dry_run THEN {} ELSE types)
  /\ ClearAndLoad(~dry_run /\ "wms" \in types /\ clear_fails # "wms",
                  ~dry_run /\ "sap" \in types /\ clear_fails = "none",
                  IF clear_fails = "none"
                  THEN IngestAllSources(1, types, dry_run, next_batch, envs)
                  ELSE [wms |-> <<>>, sap |-> <<>>, materials |-> {}])
  /\ next_batch' = next_batch + 1
  /\ UNCHANGED <<supabase, binding, mv, zone_quantities, inventory_snapshot,
                 dashboard_cache, pc, req, result, tasks, debug_logs,
                 failed_steps, pre, raised, svars>>

----------------------------------------------------------------------------
(* The service *)

(* ingest_source called on its own (as POST /ingest/all and the tasks of
   ingest_warehouse_data call it), on every small sheet *)
WmsHeader3 == <<H_ItemCode, H_CellNo, H_AvailableQty>>

WmsHeader4 == <<H_ItemCode, H_CellNo, H_AvailableQty, H_Desc>>

SapHeader == <<H_Plant, H_Material>>

WmsRowPool ==
  { << <<"A","1">>, <<"Z","-","0","1">>, <<"1","0">> >>,
    << <<"A","2">>, <<"Z","-","0","1">>, <<"5">> >>,
    << <<>>, <<"Z","-","0","2">>, <<"3">> >>,
    << <<"A","3">>, <<"Z","-","0","1">>, <<"1">>, V_1000 >>,
    << <<>>, <<" ">> >> }

SapRowPool ==
  { << V_1000, <<"M","1">> >>,
    << V_2000, <<"M","2">> >>,
    << <<" ">> \o V_1000 \o <<" ">>, <<"M","3">> >>,
    << V_1000, <<>> >>,
    << <<>>, <<"M","4">> >> }

SeqsUpTo(S, n) == UNION {[1..k -> S] : k \in 0..n}

StandaloneSource(type, classification) ==
  [id |-> S_1, label |-> <<"L">>, type |-> type, classification |-> classification]

SrcInputs ==
  [source : {StandaloneSource("wms", ClassificationConfig),
             StandaloneSource("wms", SplitBy(H_Desc))},
   values : {<<h>> \o rows : h \in {WmsHeader3, WmsHeader4},
                             rows \in SeqsUpTo(WmsRowPool, MaxRows)},
   split_value : {None, V_1000},
   dry_run : BOOLEAN]
  \cup
  [source : {StandaloneSource("sap", ClassificationConfig),
             StandaloneSource("sap", SplitBy(H_Plant)),
             StandaloneSource("sap", NullClassification)},
   values : {<<SapHeader>> \o rows : rows \in SeqsUpTo(SapRowPool, MaxRows)},
   split_value : {None, V_1000},
   dry_run : BOOLEAN]

SourceInit ==
  /\ WInit
  /\ supabase
  /\ binding = NoBinding
  /\ srcIn \in SrcInputs
  /\ srcOut = [none |-> TRUE]
  /\ XIdle

SourceReturned(e, out) ==
  /\ srcOut' = [out |-> out, env |-> e]
  /\ StoreRows(srcIn.source.type, out)

CallIngestSource(e) ==
  /\ srcOut = [none |-> TRUE]
  /\ SourceReturned(e,
       ingest_source(srcIn.source, 1, srcIn.dry_run, srcIn.split_value,
                     [fetch_raises |-> e.fetch_raises, values |-> srcIn.values,
                      failed |-> e.failed, catalog_ok |-> e.catalog_ok]))
  /\ UNCHANGED <<supabase, binding, mv, zone_quantities, inventory_snapshot,
                 dashboard_cache, next_batch, pc, req, result, tasks, debug_logs,
                 failed_steps, pre, raised, srcIn, xvars>>

SourceNext == \E e \in EnvChoices : CallIngestSource(e)

SpecSource == SourceInit /\ [][SourceNext]_vars

Init == WInit /\ SIdle

(* one call of ingest_warehouse_data at a time, from start to return *)
Run ==
  \/ \E i \in 1..Len(tasks), e \in EnvChoices : TaskComplete(i, e)
  \/ Gather
  \/ \E ok \in BOOLEAN : RefreshZone(ok)
  \/ \E ok \in BOOLEAN : RefreshSnapshot(ok)
  \/ \E fail_at \in 0..Len(DashboardKinds) : RefreshDashboard(fail_at)
  \/ \E ok \in BOOLEAN : RefreshMV(ok)
  \/ Finish

Next ==
  \/ \E types \in TypeChoices, dry_run \in BOOLEAN, db_ok \in BOOLEAN :
       StartIngest(types, dry_run, db_ok, MaxRuns)
  \/ Run

Spec == Init /\ [][Next]_vars

(* The service over time with healthy collaborators: live loads of the bound
   WMS source through POST /ingest and POST /ingest/all, dashboard reads
   and cache expiry in between. *)
ServiceInit ==
  /\ WInit
  /\ SIdle
  /\ supabase
  /\ binding = Binding(<<Bind(S_1, "wms")>>, <<>>, <<>>)

ServiceNext ==
  \/ StartIngest({"wms"}, FALSE, TRUE, MaxReloads)
  \/ \E i \in 1..Len(tasks) : TaskComplete(i, EnvOk)
  \/ Gather
  \/ RefreshZone(TRUE)
  \/ RefreshSnapshot(TRUE)
  \/ RefreshDashboard(0)
  \/ RefreshMV(TRUE)
  \/ Finish
  \/ \E k \in 1..Len(DashboardKinds) : DashboardRead(k, TRUE)
  \/ CacheExpire
  \/ ingest_all({"wms"}, FALSE, "none", [i \in 1..Len(SheetSources) |-> EnvOk],
                MaxReloads)

SpecService == ServiceInit /\ [][ServiceNext]_vars

----------------------------------------------------------------------------
(* Properties *)

Called == srcOut # [none |-> TRUE]

RefreshSteps == {"zone", "snapshot", "dashboard", "mv"}

AfterGather == RefreshSteps \cup {"finish", "done"}

HasItemCode(row) == Truthy(ItemCodeOf(row.cols))

(* C1: ingest_source never emits a row without a resolvable item/material
   code: every row handed to the bulk insert has a non-empty item_code or
   material, and for the 3-row WMS sheet A1, A2, "" (no split, healthy
   collaborators) the returned count is 2. *)
C1_NoRowWithoutItemCode ==
  Called =>
    /\ \A i \in 1..Len(srcOut.out.rows_to_insert) :
         HasItemCode(srcOut.out.rows_to_insert[i])
    /\ ( /\ srcIn.values = WmsExampleSheet
         /\ srcIn.source.classification = ClassificationConfig
         /\ srcIn.split_value = None
         /\ srcOut.env = EnvOk )
       => srcOut.out.rows_processed = 2

(* the parse of the source raises: its classification column is null, and
   the sheet has rows for the parse to be reached *)
ParseRaises == 
  /\ srcIn.source.classification = NullClassification
  /\ ~srcOut.env.fetch_raises
  /\ normalize(srcIn.values) # <<>>

(* C4: ingest_source fails soft: when the sheet fetch raises, or parsing the
   source raises, ingest_source does not raise; it returns zero rows and an
   error list with an entry carrying the source label. *)
C4_SourceFailsSoft ==
  (Called /\ (srcOut.env.fetch_raises \/ ParseRaises)) =>
    /\ ~srcOut.out.raised
    /\ srcOut.out.rows_processed = 0
    /\ srcOut.out.inserted = <<>>
    /\ \E j \in 1..Len(srcOut.out.errors) :
         srcOut.out.errors[j].label = srcIn.source.label

C4_Witness ==
  /\ Called
  /\ ParseRaises
  /\ srcOut.out.errors # <<>>
  /\ Len(srcIn.values) = 1 + MaxRows

(* the rows of the sheet that carry an item code and hold V in the split
   column, as mapped records *)
RowsWithSplitValue(in) ==
  LET norm == normalize(in.values)
      c == in.source.classification
  IN { MapRow(in.source.type, norm[i], c) :
         i \in { j \in 1..Len(norm) :
                  /\ DictGet(norm[j], c.split_by_column) = in.split_value
                  /\ Truthy(ItemCodeOf(MapRow(in.source.type, norm[j], c))) } }

SplitFiltered ==
  /\ Called
  /\ srcOut.env.fetch_raises = FALSE
  /\ srcIn.source.classification # NullClassification
  /\ srcIn.source.classification.split_enabled
  /\ srcIn.source.classification.split_by_column \in
       {srcIn.values[1][c] : c \in 1..Len(srcIn.values[1])}
  /\ Truthy(srcIn.split_value)

(* C10: for a split-enabled source whose split_by_column names a sheet column,
   ingested with split filter V, every emitted row has split key V and every
   row with an item code whose split-column value is V is emitted. *)
C10_SplitFilterSelectsV ==
  SplitFiltered =>
    LET emitted == srcOut.out.rows_to_insert IN
    /\ \A i \in 1..Len(emitted) : emitted[i].split_key = srcIn.split_value
    /\ \A m \in RowsWithSplitValue(srcIn) :
         \E i \in 1..Len(emitted) : emitted[i].cols = m

(* a live run that loaded WMS rows has returned *)
LiveWmsRunDone ==
  /\ pc = "done"
  /\ "wms" \in req.types
  /\ ~req.dry_run
  /\ result.rows_inserted > 0

(* C2: after a live run with 'wms' requested and rows_inserted > 0 whose
   dashboard refresh step did not fail, every dashboard cache entry of the
   warehouse has been rebuilt from store contents that include the rows of
   this run, whatever entries existed before. *)
C2_DashboardRebuilt ==
  (LiveWmsRunDone /\ "dashboard" \notin failed_steps) =>
    \A k \in 1..Len(DashboardKinds) :
      /\ dashboard_cache[k].present
      /\ \E load \in dashboard_cache[k].data : load[2] = result.batch_id

Superseded(table) ==
  /\ \A r1, r2 \in BagToSet(table) :
       r1.source_id = r2.source_id => r1.batch_id = r2.batch_id
  /\ \A r \in BagToSet(table) : CopiesIn(r, table) = 1

(* C3: re-ingestion supersedes: between ingestion runs the raw-row store
   holds, for each source, only the rows of one load (the most recent), and
   no row twice. *)
C3_ReingestionSupersedes ==
  pc \in {"idle", "done"} =>
    Superseded(wms_raw_rows) /\ Superseded(sap_raw_rows)

RECURSIVE SumReturned(_, _)
SumReturned(ts, i) ==
  IF i > Len(ts) THEN 0
  ELSE (IF ts[i].status = "returned" THEN ts[i].rows ELSE 0) + SumReturned(ts, i + 1)

TaskErrors(r) == {j \in 1..Len(r.errors) : r.errors[j].type = "task_error"}

RaisedTasks(ts) == {i \in 1..Len(ts) : ts[i].status = "raised"}

(* C5: once the gather of a run is over, every task has returned or raised
   (none was dropped because a sibling failed), rows_inserted is the sum of
   the counts of the tasks that returned, and there is exactly one task_error
   entry per task that raised - in every completion order. *)
C5_GatherAllResults ==
  (pc \in AfterGather /\ tasks # <<>>) =>
    /\ \A i \in 1..Len(tasks) : tasks[i].status \in {"returned", "raised"}
    /\ result.rows_inserted = SumReturned(tasks, 1)
    /\ Cardinality(TaskErrors(result)) = Cardinality(RaisedTasks(tasks))

C5_Witness ==
  /\ pc = "done"
  /\ RaisedTasks(tasks) # {}
  /\ \E i \in 1..Len(tasks) : tasks[i].status = "returned" /\ tasks[i].rows > 0
  /\ result.rows_inserted > 0

StepNotes(logs) == {logs[j][1] : j \in 1..Len(logs)} \cap RefreshSteps

(* C6: the four refresh steps are independently fail-soft: a step that
   raises leaves rows_inserted, sources_processed, errors and warnings
   unchanged, adds one diagnostic note, and control goes on to the next
   step; a run that entered the refresh section returns with a note of
   every one of the four steps. *)
C6_RefreshFailSoft ==
  /\ [][ (pc \in RefreshSteps /\ failed_steps' # failed_steps) =>
           /\ result'.rows_inserted = result.rows_inserted
           /\ result'.sources_processed = result.sources_processed
           /\ result'.errors = result.errors
           /\ result'.warnings = result.warnings
           /\ Len(debug_logs') = Len(debug_logs) + 1
           /\ pc' = StepAfter(pc) ]_vars
  /\ [](LiveWmsRunDone => StepNotes(result.debug_logs) = RefreshSteps)

C6_Witness ==
  /\ pc = "done"
  /\ failed_steps = RefreshSteps
  /\ result.rows_inserted > 0
  /\ StepNotes(result.debug_logs) = RefreshSteps

(* the rows of a task's sheet that survive the item-code and split filters *)
SurvivingRows(t) ==
  LET norm == normalize(SheetOf(t.source.id))
      c == t.source.classification
      Survives(m) ==
        /\ Truthy(ItemCodeOf(m))
        /\ Truthy(t.split_value) => get_split_key(m, c) = t.split_value
  IN Cardinality({i \in 1..Len(norm) : Survives(MapRow(t.source.type, norm[i], c))})

RECURSIVE WouldWrite(_, _)
WouldWrite(ts, i) ==
  IF i > Len(ts) THEN 0
  ELSE (IF ts[i].status = "returned" /\ ts[i].fetched
        THEN SurvivingRows(ts[i]) ELSE 0) + WouldWrite(ts, i + 1)

(* C7: a dry run changes no persistent state - no row inserted, materials
   catalog untouched, no cache refresh run - and its row count is the number
   of rows that survive the item-code and split filters. *)
C7_DryRunWritesNothing ==
  (pc = "done" /\ req.dry_run) =>
    /\ Persistent = pre
    /\ StepNotes(result.debug_logs) = {}
    /\ result.rows_inserted = WouldWrite(tasks, 1)

NoSourcesOfTypes ==
  binding # NoBinding /\ SourceBindingsToProcess(binding, req.types) = <<>>

(* C8 as stated: a missing binding, or a binding without a source of the
   requested types, is reported as a warning - not as an error - and zero
   rows are inserted. *)
C8_MissingBindingIsWarning ==
  (pc = "done" /\ supabase /\ (binding = NoBinding \/ NoSourcesOfTypes)) =>
    /\ result.warnings # <<>>
    /\ result.errors = <<>>
    /\ result.rows_inserted = 0

(* C8 amended: a missing binding is reported as one binding_error entry of
   the error list (no warning); a binding without a source of the requested
   types is reported as one warning (no error); zero rows either way. *)
C8_MissingBindingIsError ==
  /\ (pc = "done" /\ supabase /\ binding = NoBinding) =>
       /\ Len(result.errors) = 1
       /\ result.errors[1].type = "binding_error"
       /\ result.warnings = <<>>
       /\ result.rows_inserted = 0
  /\ (pc = "done" /\ supabase /\ NoSourcesOfTypes) =>
       /\ Len(result.warnings) = 1
       /\ result.errors = <<>>
       /\ result.rows_inserted = 0

C8_Witness ==
  /\ pc = "done"
  /\ supabase
  /\ binding = NoBinding
  /\ result.errors # <<>>

StructuredResult(r) ==
  /\ r.rows_inserted \in Nat
  /\ r.sources_processed \in Nat
  /\ \A j \in 1..Len(r.errors) :
       r.errors[j].type \in {"binding_error", "task_error", "source_error",
                             "general_error"}
  /\ Len(r.warnings) \in Nat

(* C9: ingest_warehouse_data never lets an exception out and always returns
   a structured IngestResult, whatever its collaborators do. *)
C9_NeverRaises ==
  /\ ~raised
  /\ pc # "raised"
  /\ pc = "done" => StructuredResult(result)

C9_Witness ==
  /\ pc = "done"
  /\ "mv" \in failed_steps
  /\ \E j \in 1..Len(result.errors) : result.errors[j].type = "source_error"
  /\ result.rows_inserted > 0

----------------------------------------------------------------------------
(* column_mapping.py: get_split_key called on its own *)

K_plant == <<"p","l","a","n","t">>

K_desc == <<"d","e","s","c">>

K_description == <<"d","e","s","c","r","i","p","t","i","o","n">>

(* values a mapped record may hold under a key *)
KeyValues ==
  { None, <<>>, <<" ">>, <<" ", " ">>, V_1000, <<" ">> \o V_1000 \o <<" ">>,
    Float(<<"0", ".", "0">>), Float(<<"1", "0", "0", "0", ".", "0">>) }

KeyRows ==
  {<<>>} \cup
  { << <<k, v>> >> : k \in {K_plant, K_desc, K_description}, v \in KeyValues }

KeyClassifications ==
  { [ClassificationConfig EXCEPT !.split_enabled = e, !.split_by_column = c] :
      e \in BOOLEAN, c \in {None, <<>>, H_Plant, H_Desc} }

KeyInputs == [mapped_row : KeyRows, classification : KeyClassifications]

SplitKeyInit ==
  /\ WInit
  /\ SrcIdle
  /\ keyIn \in KeyInputs
  /\ keyOut = [none |-> TRUE]
  /\ BIdle
  /\ CIdle
  /\ ZIdle
  /\ FIdle
  /\ DIdle
  /\ RIdle

CallGetSplitKey ==
  /\ keyOut = [none |-> TRUE]
  /\ keyOut' = [key |-> get_split_key(keyIn.mapped_row, keyIn.classification)]
  /\ UNCHANGED <<wvars, srcIn, srcOut, keyIn, bvars, cvars, zvars, fvars, dvars, rvars>>

SplitKeyNext == CallGetSplitKey

SpecSplitKey == SplitKeyInit /\ [][SplitKeyNext]_vars

KeyCalled == keyOut # [none |-> TRUE]

(* the value the mapped record holds under the normalized split column *)
SplitColumnValue ==
  DictGet(keyIn.mapped_row,
          normalize_column_name(keyIn.classification.split_by_column))

BlankValue(v) == v # None /\ Strip(Str(v)) = <<>>

(* C11: get_split_key never yields an empty partition value: it returns null
   or a non-empty whitespace-trimmed string, and it returns null whenever
   splitting is disabled, no split column is named, or the value of the
   split column is empty or only whitespace. *)
C11_SplitKeyNeverEmpty ==
  KeyCalled =>
    /\ \/ keyOut.key = None
       \/ keyOut.key # <<>> /\ Strip(keyOut.key) = keyOut.key
    /\ ( \/ ~keyIn.classification.split_enabled
         \/ ~Truthy(keyIn.classification.split_by_column)
         \/ BlankValue(SplitColumnValue) )
       => keyOut.key = None

----------------------------------------------------------------------------
(* app_extended.py: PUT /config/bindings/{warehouse_code} *)

BindKey(source_id, split_value) == source_id \o <<":", ":">> \o split_value

(* the entries a request body may hold *)
BindEntries ==
  << Bind(BindKey(S_2, V_1000), "sap"),
     Bind(BindKey(S_2, V_2000), "sap"),
     Bind(BindKey(S_1, V_1000), "wms"),
     [key |-> S_1, type |-> "wms", split_value |-> V_2000] >>

(* binding.source_bindings of a request: any selection of the entries *)
BindBodies ==
  { SelectSeq(BindEntries, LAMBDA b : b \in chosen) :
      chosen \in SUBSET {BindEntries[i] : i \in 1..Len(BindEntries)} }

(* supabase_client.py lines 102-131: the row of the warehouse is replaced by
   the request's; an unknown warehouse code raises (status 500) *)
upsert_warehouse_binding(warehouse_code, source_bindings) ==
  IF warehouse_code \notin Warehouses THEN warehouse_bindings
  ELSE [warehouse_bindings EXCEPT ![warehouse_code] =
          [present |-> TRUE, source_bindings |-> source_bindings]]

save_binding(warehouse_code, source_bindings) ==
  /\ warehouse_bindings' = upsert_warehouse_binding(warehouse_code, source_bindings)
  /\ UNCHANGED <<wvars, srcIn, srcOut, kvars, cvars, zvars, fvars, dvars, rvars>>

(* supabase_client.py lines 292-336: the (source, split value) pairs a row
   uses, read from the key or from the entry's split_value *)
SplitsUsed(row) ==
  { <<ParseBindKey(row.source_bindings[i]).source_id,
      ParseBindKey(row.source_bindings[i]).split_value>> :
      i \in { j \in 1..Len(row.source_bindings) :
                Truthy(ParseBindKey(row.source_bindings[j]).split_value) } }

BindingsInit ==
  /\ WInit
  /\ SrcIdle
  /\ KIdle
  /\ BIdle
  /\ CIdle
  /\ ZIdle
  /\ FIdle
  /\ DIdle
  /\ RIdle
  /\ supabase
  /\ binding = NoBinding

BindingsNext ==
  \E w \in Warehouses \cup {W_9}, body \in BindBodies : save_binding(w, body)

SpecBindings == BindingsInit /\ [][BindingsNext]_vars

(* C12: after any sequence of binding saves, no split value of a source is
   owned by more than one warehouse. *)
C12_SplitValueHasOneOwner ==
  \A w1, w2 \in Warehouses :
    w1 # w2 =>
      SplitsUsed(warehouse_bindings[w1]) \cap SplitsUsed(warehouse_bindings[w2]) = {}

----------------------------------------------------------------------------
(* zone_capacity.py: calculate_zone_capacity *)

MaxItems == 2

(* Python None where a number is expected *)
NoneNum == 0 - 1

NumTruthy(n) == n # NoneNum /\ n # 0

(* a JSON list column: null, or the list *)
NullList == [null |-> TRUE, list |-> <<>>]

List(l) == [null |-> FALSE, list |-> l]

ListTruthy(l) == ~l.null /\ l.list # <<>>

(* sum(cap or 0 for cap in floor_capacities) *)
RECURSIVE SumCaps(_, _)
SumCaps(caps, i) ==
  IF i > Len(caps) THEN 0
  ELSE (IF NumTruthy(caps[i]) THEN caps[i] ELSE 0) + SumCaps(caps, i + 1)

Item(id, type, floors, rows, cols, floor_capacities, max_capacity) ==
  [id |-> id, type |-> type, floors |-> floors, rows |-> rows, cols |-> cols,
   floor_capacities |-> floor_capacities, max_capacity |-> max_capacity]

RackIgnoresFloorCapacities(item) ==
  IF item.type = "rack"
  THEN IF NumTruthy(item.floors) /\ NumTruthy(item.rows) /\ NumTruthy(item.cols)
       THEN item.floors * item.rows * item.cols
       ELSE 0
  ELSE IF item.type = "flat"
  THEN IF NumTruthy(item.max_capacity) /\ item.max_capacity > 0
       THEN item.max_capacity
       ELSE IF NumTruthy(item.rows) /\ NumTruthy(item.cols)
            THEN item.rows * item.cols
            ELSE 0
  ELSE 0

(* lines 55-78: what one item adds to total_capacity *)
ItemCapacity(item) ==
  IF item.type = "rack"
  THEN IF ListTruthy(item.floor_capacities)
       THEN SumCaps(item.floor_capacities.list, 1)
       ELSE IF NumTruthy(item.floors) /\ NumTruthy(item.rows) /\ NumTruthy(item.cols)
            THEN item.floors * item.rows * item.cols
            ELSE 0
  ELSE IF item.type = "flat"
  THEN IF NumTruthy(item.max_capacity) /\ item.max_capacity > 0
       THEN item.max_capacity
       ELSE IF NumTruthy(item.rows) /\ NumTruthy(item.cols)
            THEN item.rows * item.cols
            ELSE 0
  ELSE 0

RECURSIVE TotalCapacity(_, _)
TotalCapacity(items, i) ==
  IF i > Len(items) THEN 0 ELSE ItemCapacity(items[i]) + TotalCapacity(items, i + 1)

calculate_zone_capacity(zone_data) ==
  [max_capacity |-> TotalCapacity(zone_data.items, 1),
   item_count |-> Len(zone_data.items)]

(* rows of the items table *)
RackByFloors == Item("r1", "rack", 2, 3, 2, NullList, NoneNum)

RackByList == Item("r2", "rack", 4, 4, 4, List(<<10, 10, 5>>), NoneNum)

RackEmptyList == Item("r3", "rack", 2, 3, 2, List(<<>>), NoneNum)

RackNullEntry == Item("r4", "rack", 1, 1, 1, List(<<NoneNum, 4>>), NoneNum)

RackNoFloors == Item("r5", "rack", NoneNum, 3, 2, NullList, NoneNum)

FlatZeroMax == Item("f1", "flat", NoneNum, 4, 5, NullList, 0)

FlatByMax == Item("f2", "flat", NoneNum, 4, 5, NullList, 7)

FlatNullMax == Item("f3", "flat", NoneNum, 2, 2, NullList, NoneNum)

ItemPool ==
  { RackByFloors, RackByList, RackEmptyList, RackNullEntry, RackNoFloors,
    FlatZeroMax, FlatByMax, FlatNullMax }

CapacityInit ==
  /\ WInit
  /\ SrcIdle
  /\ KIdle
  /\ BIdle
  /\ ZIdle
  /\ FIdle
  /\ DIdle
  /\ RIdle
  /\ supabase
  /\ binding = NoBinding
  /\ capIn \in [items : SeqsUpTo(ItemPool, MaxItems)]
  /\ capOut = [none |-> TRUE]

CallCalculateZoneCapacity ==
  /\ capOut = [none |-> TRUE]
  /\ capOut' = calculate_zone_capacity(capIn)
  /\ UNCHANGED <<wvars, srcIn, srcOut, kvars, bvars, capIn, zvars, fvars, dvars, rvars>>

CapacityNext == CallCalculateZoneCapacity

SpecCapacity == CapacityInit /\ [][CapacityNext]_vars

CapacityCalled == capOut # [none |-> TRUE]

NumOr0(n) == IF n = NoneNum THEN 0 ELSE n

(* the capacity of one component by the layout rule; empty_is_present says
   whether an empty floor_capacities list counts as present *)
RuleCapacity(item, empty_is_present) ==
  IF item.type = "rack"
  THEN IF ~item.floor_capacities.null /\ (empty_is_present \/ item.floor_capacities.list # <<>>)
       THEN SumCaps(item.floor_capacities.list, 1)
       ELSE NumOr0(item.floors) * NumOr0(item.rows) * NumOr0(item.cols)
  ELSE IF item.max_capacity # NoneNum /\ item.max_capacity > 0
       THEN item.max_capacity
       ELSE NumOr0(item.rows) * NumOr0(item.cols)

RECURSIVE RuleTotal(_, _, _)
RuleTotal(items, i, empty_is_present) ==
  IF i > Len(items) THEN 0
  ELSE RuleCapacity(items[i], empty_is_present) + RuleTotal(items, i + 1, empty_is_present)

(* C13 as stated: the zone capacity is the sum over the components of: rack,
   the sum of floor_capacities when the list is present, otherwise
   floors*rows*cols; flat, max_capacity when present and positive, otherwise
   rows*cols. *)
C13_CapacityWhenListPresent ==
  CapacityCalled =>
    capOut.max_capacity = RuleTotal(capIn.items, 1, TRUE)

(* C13 amended: as stated, with the sum of floor_capacities used when the
   list is present and not empty; a rack whose list is null or empty falls
   back to floors*rows*cols. *)
C13_CapacityWhenListNotEmpty ==
  CapacityCalled =>
    capOut.max_capacity = RuleTotal(capIn.items, 1, FALSE)

C13_Witness ==
  /\ CapacityCalled
  /\ capIn.items = <<RackByList, FlatZeroMax>>
  /\ capOut.max_capacity = 25 + 20

----------------------------------------------------------------------------
(* zone_capacity.py: the cache file and update_zone_capacities *)

MaxZones == 2

MaxMaterials == 2

(* a key that the dict does not hold, where a number is expected *)
AbsentNum == 0 - 2

RECURSIVE GCD(_, _)
GCD(a, b) == IF b = 0 THEN a ELSE GCD(b, a % b)

(* a float that is the quotient of two naturals, in lowest terms *)
Ratio(n, d) == <<n \div GCD(n, d), d \div GCD(n, d)>>

Zero == <<0, 1>>

(* key 'utilization_percentage' not in the dict *)
NoUtil == <<0, 0>>

(* (current / max) * 100 if max > 0 else 0.0 *)
Utilization(current, max) == IF max > 0 THEN Ratio(current * 100, max) ELSE Zero

NoDisplay == [absent |-> TRUE]

(* lines 132-157: the component built from an item; materials, current_stock
   and utilization_percentage are keys the sync calls add later *)
Component(item) ==
  [id |-> item.id, type |-> item.type, rows |-> item.rows, cols |-> item.cols,
   floors |-> IF item.type = "rack" THEN item.floors ELSE AbsentNum,
   floor_capacities |-> IF item.type = "rack" THEN item.floor_capacities ELSE NullList,
   max_capacity |-> IF item.type = "rack" THEN AbsentNum ELSE item.max_capacity,
   materials |-> <<>>, current_stock |-> AbsentNum, utilization_percentage |-> NoUtil]

Components(items) == [i \in 1..Len(items) |-> Component(items[i])]

(* existing_data[zone_id] = {} *)
NewZone ==
  [zone_code |-> "", max_capacity |-> AbsentNum, item_count |-> AbsentNum,
   components |-> <<>>, layouts |-> NullList, current_stock |-> AbsentNum,
   utilization_percentage |-> NoUtil, cached_display_data |-> NoDisplay]

ResetsLiveState(old, zone) ==
  [old EXCEPT !.zone_code = zone.code,
              !.max_capacity = calculate_zone_capacity(zone).max_capacity,
              !.item_count = calculate_zone_capacity(zone).item_count,
              !.components = Components(zone.items),
              !.current_stock = 0,
              !.utilization_percentage = Zero]

(* lines 159-176 *)
UpdatedZone(old, zone) ==
  [old EXCEPT !.zone_code = zone.code,
              !.max_capacity = calculate_zone_capacity(zone).max_capacity,
              !.item_count = calculate_zone_capacity(zone).item_count,
              !.components = Components(zone.items),
              !.current_stock = IF old.current_stock = AbsentNum THEN 0 ELSE @,
              !.utilization_percentage = IF old.current_stock = AbsentNum THEN Zero ELSE @]

(* lines 125-178 *)
RECURSIVE UpdateZones(_, _, _)
UpdateZones(existing_data, rows, i) ==
  IF i > Len(rows) THEN existing_data
  ELSE UpdateZones(DictSet(existing_data, rows[i].id, UpdatedZone(IF DictHas(existing_data, rows[i].id) THEN DictGet(existing_data, rows[i].id) ELSE NewZone, rows[i])), rows, i + 1)

(* lines 180-187 *)
RemoveZones(existing_data, updated_zones) ==
  SelectSeq(existing_data, LAMBDA e : e[1] \in updated_zones)

(* a fast sync that follows a returned update_zone_capacities *)
AfterRefresh(op) ==
  op = "update_current_quantities_fast" /\ zcall.op = "update_zone_capacities" /\ ~zcall.raised

(* and the cache before that refresh *)
RefreshBefore(op) == IF AfterRefresh(op) THEN zcall.before ELSE <<>>

Returned(op) ==
  [NoCall EXCEPT !.op = op, !.before = zone_capacities,
                 !.after_refresh = AfterRefresh(op),
                 !.refresh_before = RefreshBefore(op)]

Raised(op) ==
  [NoCall EXCEPT !.op = op, !.before = zone_capacities, !.raised = TRUE,
                 !.after_refresh = AfterRefresh(op),
                 !.refresh_before = RefreshBefore(op)]

(* a write with open(path, 'w') and json.dump: "ok" writes the data;
   "unwritten" is a failing open, the file is as it was; "truncated" is a
   failure after the open has emptied the file, what is left cannot be parsed *)
SaveOutcomes == {"ok", "unwritten", "truncated"}

(* _save_capacities and the file as the next _load_capacities reads it:
   {} for a file that json.load cannot parse *)
WrittenFile(data, save) ==
  CASE save = "ok" -> data
    [] save = "unwritten" -> zone_capacities
    [] save = "truncated" -> <<>>

(* _save_capacities: the dump, or the IOError re-raised *)
SaveCapacities(op, data, save) ==
  /\ zone_capacities' = WrittenFile(data, save)
  /\ zcall' = IF save = "ok" THEN Returned(op)
              ELSE [Raised(op) EXCEPT !.save_failed = TRUE]

update_zone_capacities(query_ok, save) ==
  /\ IF query_ok
     THEN SaveCapacities("update_zone_capacities", RemoveZones(UpdateZones(zone_capacities, zones, 1), {zones[i].id : i \in 1..Len(zones)}), save)
     ELSE zone_capacities' = zone_capacities /\ zcall' = Raised("update_zone_capacities")
  /\ UNCHANGED <<wvars, srcIn, srcOut, kvars, bvars, cvars, zones, fvars, dvars, rvars>>

(* comp.get('max_capacity', 0), zone.get('current_stock', 0) *)
GetOr0(n) == IF n = AbsentNum THEN 0 ELSE n

(* None > 0 is a TypeError *)
ComponentRaises(comp) == comp.max_capacity = NoneNum

StockOffByOne(comp) ==
  [comp EXCEPT !.current_stock = Len(comp.materials) + 1,
               !.utilization_percentage = Utilization(Len(comp.materials) + 1, GetOr0(comp.max_capacity))]

(* lines 220-236 *)
SyncComponent(comp) ==
  [comp EXCEPT !.current_stock = Len(comp.materials),
               !.utilization_percentage = Utilization(Len(comp.materials), GetOr0(comp.max_capacity))]

RECURSIVE ZoneMaterials(_, _)
ZoneMaterials(components, i) ==
  IF i > Len(components) THEN <<>>
  ELSE components[i].materials \o ZoneMaterials(components, i + 1)

(* mat.get('lot_key') or 'NO_LOT' *)
LotKey(mat) == IF mat.lot_key = "" THEN "NO_LOT" ELSE mat.lot_key

(* lot_counts (by_lot) and material_counts: the summed quantities, in the
   order in which the keys first appear *)
RECURSIVE Counts(_, _, _, _)
Counts(mats, i, by_lot, acc) ==
  IF i > Len(mats) THEN acc
  ELSE IF ~by_lot /\ mats[i].item_code = "" THEN Counts(mats, i + 1, by_lot, acc)
  ELSE Counts(mats, i + 1, by_lot, DictSet(acc, IF by_lot THEN LotKey(mats[i]) ELSE mats[i].item_code, (IF DictHas(acc, IF by_lot THEN LotKey(mats[i]) ELSE mats[i].item_code) THEN DictGet(acc, IF by_lot THEN LotKey(mats[i]) ELSE mats[i].item_code) ELSE 0) + mats[i].quantity))

(* list.sort(key=quantity, reverse=True): stable, descending *)
RECURSIVE SortDescending(_, _, _)
SortDescending(pairs, i, acc) ==
  IF i > Len(pairs) THEN acc
  ELSE SortDescending(pairs, i + 1, SelectSeq(acc, LAMBDA e : e[2] >= pairs[i][2]) \o <<pairs[i]>> \o SelectSeq(acc, LAMBDA e : e[2] < pairs[i][2]))

(* round(quantity / total_items * 100, 1), in tenths of a percent; no value
   lies halfway between two tenths while total_items < 16 *)
Percentage(quantity, total_items) ==
  IF total_items > 0 THEN (quantity * 2000 + total_items) \div (2 * total_items) ELSE 0

(* lines 265-278, 305 *)
LotDistribution(counts, total_items) ==
  [i \in 1..Len(counts) |->
     [lot_key |-> IF counts[i][1] = "NO_LOT" THEN "None" ELSE counts[i][1],
      quantity |-> counts[i][2],
      percentage |-> Percentage(counts[i][2], total_items)]]

(* lines 280-302, 306 *)
MaterialsSummary(counts, mats) ==
  [i \in 1..Len(counts) |->
     [item_code |-> counts[i][1],
      total_quantity |-> counts[i][2],
      lots |-> {LotKey(mats[j]) : j \in {k \in 1..Len(mats) : mats[k].item_code = counts[i][1]}} \ {"NO_LOT"}]]

(* lines 246-259 *)
ComponentsDisplay(components) ==
  [i \in 1..Len(components) |->
     [id |-> components[i].id, type |-> components[i].type,
      max_capacity |-> IF components[i].max_capacity = AbsentNum THEN NoneNum ELSE components[i].max_capacity,
      current_stock |-> Len(components[i].materials),
      utilization_percentage |-> IF components[i].utilization_percentage = NoUtil THEN Zero ELSE components[i].utilization_percentage,
      materials |-> components[i].materials]]

(* lines 238-318: zone_data is the zone as it is when line 240 reads it *)
DisplayData(zone_data, components, mats) ==
  [total_items |-> Len(mats),
   unique_skus |-> Cardinality({mats[i].item_code : i \in 1..Len(mats)} \ {""}),
   max_capacity |-> GetOr0(zone_data.max_capacity),
   current_stock |-> GetOr0(zone_data.current_stock),
   utilization_percentage |-> IF zone_data.utilization_percentage = NoUtil THEN Zero ELSE zone_data.utilization_percentage,
   lot_distribution |-> LotDistribution(SortDescending(Counts(mats, 1, TRUE, <<>>), 1, <<>>), Len(mats)),
   materials_summary |-> MaterialsSummary(SortDescending(Counts(mats, 1, FALSE, <<>>), 1, <<>>), mats),
   components |-> ComponentsDisplay(components)]

RECURSIVE TotalStock(_, _)
TotalStock(components, i) ==
  IF i > Len(components) THEN 0
  ELSE components[i].current_stock + TotalStock(components, i + 1)

(* lines 308-327 *)
SyncedZone(zone_data, components, display_components) ==
  [zone_data EXCEPT
     !.cached_display_data = DisplayData(zone_data, display_components, ZoneMaterials(display_components, 1)),
     !.current_stock = TotalStock(components, 1),
     !.utilization_percentage = Utilization(TotalStock(components, 1), GetOr0(zone_data.max_capacity))]

(* lines 216-329 for one zone *)
FastZone(zone_data, components) ==
  SyncedZone([zone_data EXCEPT !.components = components], components, components)

FastZones(existing_data) ==
  [i \in 1..Len(existing_data) |->
     <<existing_data[i][1],
       FastZone(existing_data[i][2], [c \in 1..Len(existing_data[i][2].components) |-> SyncComponent(existing_data[i][2].components[c])])>>]

FastRaises(existing_data) ==
  \E i \in 1..Len(existing_data) :
    \E c \in 1..Len(existing_data[i][2].components) : ComponentRaises(existing_data[i][2].components[c])

update_current_quantities_fast(save) ==
  /\ IF FastRaises(zone_capacities)
     THEN zone_capacities' = zone_capacities /\ zcall' = Raised("update_current_quantities_fast")
     ELSE SaveCapacities("update_current_quantities_fast", FastZones(zone_capacities), save)
  /\ UNCHANGED <<wvars, srcIn, srcOut, kvars, bvars, cvars, zones, fvars, dvars, rvars>>

(* update_current_quantities reads the components of a zone from its
   'layouts' key: a list of layouts, each with a list of components *)
Layout(components) == [components |-> components]

(* lines 548-570: every component of every layout of the zone *)
SyncLayouts(layouts) ==
  [l \in 1..Len(layouts) |-> Layout([c \in 1..Len(layouts[l].components) |-> SyncComponent(layouts[l].components[c])])]

LayoutsRaise(layouts) ==
  \E l \in 1..Len(layouts) : \E c \in 1..Len(layouts[l].components) : ComponentRaises(layouts[l].components[c])

RECURSIVE AllComponents(_, _)
AllComponents(layouts, l) ==
  IF l > Len(layouts) THEN <<>> ELSE layouts[l].components \o AllComponents(layouts, l + 1)

(* the local names comp and components after the layout loop of zone z:
   <<zone, layout, component>> and <<zone, layout>>, or <<>> while the name
   is unbound; a zone without components leaves them as the previous zone
   left them *)
BoundComp(z, layouts, comp) ==
  IF \E l \in 1..Len(layouts) : layouts[l].components # <<>>
  THEN <<z, CHOOSE l \in 1..Len(layouts) : layouts[l].components # <<>> /\ \A k \in (l + 1)..Len(layouts) : layouts[k].components = <<>>,
         Len(layouts[CHOOSE l \in 1..Len(layouts) : layouts[l].components # <<>> /\ \A k \in (l + 1)..Len(layouts) : layouts[k].components = <<>>].components)>>
  ELSE comp

BoundComponents(z, layouts, components) ==
  IF layouts # <<>> THEN <<z, Len(layouts)>> ELSE components

(* lines 581-632: the WMS items of the locations that the hard-coded mapping
   gives to the zone, for a flat or a rack component *)
CompMaterials(comp_type, zone_code, location_items) ==
  IF comp_type \notin {"flat", "rack"} THEN <<>>
  ELSE IF zone_code = "F-zone" THEN location_items.kitting
  ELSE IF zone_code = "A-zone" THEN location_items.trailer
  ELSE <<>>

(* lines 639-728 *)
StoreZone(data, z, components) ==
  [data EXCEPT ![z][2] = SyncedZone(@, AllComponents(@.layouts.list, 1), data[components[1]][2].layouts.list[components[2]].components)]

(* line 636: comp['materials'] = comp_materials *)
StoreMaterials(data, z, comp, location_items) ==
  [data EXCEPT ![comp[1]][2].layouts.list[comp[2]].components[comp[3]].materials =
     CompMaterials(data[comp[1]][2].layouts.list[comp[2]].components[comp[3]].type, data[z][2].zone_code, location_items)]

(* lines 513-730: the zones in the order of the file; failed_zone is the zone
   whose processing raised, 0 when none did *)
RECURSIVE SyncZones(_, _, _, _, _)
SyncZones(data, z, comp, components, location_items) ==
  IF z > Len(data) THEN [data |-> data, failed_zone |-> 0]
  ELSE IF LayoutsRaise(data[z][2].layouts.list) \/ BoundComp(z, data[z][2].layouts.list, comp) = <<>>
  THEN [data |-> data, failed_zone |-> z]
  ELSE SyncZones(StoreZone(StoreMaterials([data EXCEPT ![z][2].layouts.list = SyncLayouts(@)], z, BoundComp(z, data[z][2].layouts.list, comp), location_items), z, BoundComponents(z, data[z][2].layouts.list, components)), z + 1, BoundComp(z, data[z][2].layouts.list, comp), BoundComponents(z, data[z][2].layouts.list, components), location_items)

(* lines 732-739: the save is inside the try block whose handler only prints *)
SyncOutcome(op, out, save) ==
  IF out.failed_zone # 0
  THEN zone_capacities' = zone_capacities /\ zcall' = [Returned(op) EXCEPT !.failed_zone = out.failed_zone]
  ELSE /\ zone_capacities' = WrittenFile(out.data, save)
       /\ zcall' = IF save = "ok" THEN Returned(op)
                   ELSE [Returned(op) EXCEPT !.save_failed = TRUE]

(* codes_given: warehouse_codes is a list (iterating None raises);
   query_ok: the query of lines 353-355 succeeds; location_items: what
   lines 409-474 collect for the KITTING and the 562 locations *)
update_current_quantities(codes_given, query_ok, location_items, save) ==
  /\ IF codes_given /\ query_ok
     THEN SyncOutcome("update_current_quantities", SyncZones(zone_capacities, 1, <<>>, <<>>, location_items), save)
     ELSE zone_capacities' = zone_capacities /\ zcall' = Returned("update_current_quantities")
  /\ UNCHANGED <<wvars, srcIn, srcOut, kvars, bvars, cvars, zones, fvars, dvars, rvars>>

(* pre-mapped materials of a component *)
Material(item_code, lot_key, quantity) ==
  [item_code |-> item_code, lot_key |-> lot_key, quantity |-> quantity]

MaterialPool == { Material("A1", "L1", 1), Material("A2", "", 2) }

FiveMaterials == [i \in 1..5 |-> Material("A1", "L1", 1)]

MaterialLists == SeqsUpTo(MaterialPool, MaxMaterials) \cup {FiveMaterials}

ZoneRow(id, code, items) == [id |-> id, code |-> code, items |-> items]

ZoneRowPool ==
  { ZoneRow("z1", "F-zone", <<RackByFloors>>),
    ZoneRow("z2", "A-zone", <<FlatByMax, RackByList>>),
    ZoneRow("z2", "A-zone", <<FlatNullMax>>) }

ZoneTables ==
  { t \in SeqsUpTo(ZoneRowPool, MaxZones) : \A i, j \in 1..Len(t) : i # j => t[i].id # t[j].id }

(* the zones table at the time of the calls *)
UpstreamTables ==
  { t \in ZoneTables : Len(t) > 1 => \A i \in 1..Len(t) : t[i].items # <<FlatNullMax>> }

(* a cache file left by earlier calls: the zones of a table as
   update_zone_capacities persists them, the materials pre-mapped into the
   components, and the stock written by the previous sync *)
PreMapped(data, mats, stock) ==
  [i \in 1..Len(data) |->
     <<data[i][1],
       [data[i][2] EXCEPT
          !.components = [c \in 1..Len(@) |-> [@[c] EXCEPT !.materials = mats]],
          !.current_stock = stock,
          !.utilization_percentage = Utilization(stock, data[i][2].max_capacity)]>>]

(* a zone written in the layout the authoritative sync reads *)
WithLayouts(data, ids) ==
  [i \in 1..Len(data) |->
     IF data[i][1] \in ids
     THEN <<data[i][1], [data[i][2] EXCEPT !.layouts = List(<<Layout(data[i][2].components)>>), !.components = <<>>]>>
     ELSE data[i]]

CacheFiles ==
  { WithLayouts(PreMapped(UpdateZones(<<>>, t, 1), m, stock), ids) :
      t \in ZoneTables, m \in MaterialLists, stock \in {0, 3}, ids \in {{}, {"z1"}} }

LocationItems ==
  { [kitting |-> k, trailer |-> <<>>] : k \in {<<>>, <<Material("A1", "L1", 1)>>} }

(* zone_capacity.py lines 8-15: the names the module imports from
   models_extended *)
ImportedNames == {"ZoneCapacityInfo", "ZoneCapacityResponse", "ComponentInfo", "LayoutInfo"}

(* line 777: MaterialInfo is looked up once per material of the component *)
ComponentInfoRaises(comp) == comp.materials # <<>> /\ "MaterialInfo" \notin ImportedNames

(* lines 756-808: the ComponentInfo of each component, then the
   ZoneCapacityInfo, whose argument of line 807 looks up CachedDisplayData *)
ZoneInfoRaises(zone_data) ==
  \/ \E c \in 1..Len(zone_data.components) : ComponentInfoRaises(zone_data.components[c])
  \/ "CachedDisplayData" \notin ImportedNames

(* zone_data.get('utilization_percentage', 0.0) *)
UtilOr0(u) == IF u = NoUtil THEN Zero ELSE u

AtLeast(u, v) == u[1] * v[2] >= v[1] * u[2]

ZoneInfo(zone_id, zone_data) ==
  [zone_id |-> zone_id, utilization_percentage |-> UtilOr0(zone_data.utilization_percentage)]

(* line 811: zones.sort(key=utilization_percentage, reverse=True) *)
RECURSIVE SortByUtilization(_, _, _)
SortByUtilization(data, i, acc) ==
  IF i > Len(data) THEN acc
  ELSE SortByUtilization(data, i + 1, SelectSeq(acc, LAMBDA e : AtLeast(e.utilization_percentage, UtilOr0(data[i][2].utilization_percentage))) \o <<ZoneInfo(data[i][1], data[i][2])>> \o SelectSeq(acc, LAMBDA e : ~AtLeast(e.utilization_percentage, UtilOr0(data[i][2].utilization_percentage))))

(* lines 741-827: any exception of the loop is caught by line 825 and the
   empty response is returned *)
ZoneCapacityResponse(data) ==
  IF \E i \in 1..Len(data) : ZoneInfoRaises(data[i][2]) THEN EmptyResponse
  ELSE [zones |-> SortByUtilization(data, 1, <<>>), total_zones |-> Len(data)]

get_zone_capacities ==
  /\ zcall' = [Returned("get_zone_capacities") EXCEPT !.response = ZoneCapacityResponse(zone_capacities)]
  /\ UNCHANGED <<wvars, srcIn, srcOut, kvars, bvars, cvars, zones, zone_capacities, fvars, dvars, rvars>>

ZonesInit ==
  /\ WInit
  /\ SrcIdle
  /\ KIdle
  /\ BIdle
  /\ CIdle
  /\ FIdle
  /\ DIdle
  /\ RIdle
  /\ supabase
  /\ binding = NoBinding
  /\ zones \in UpstreamTables
  /\ zone_capacities \in CacheFiles
  /\ zcall = NoCall

ZonesNext ==
  \/ \E query_ok \in BOOLEAN, save \in SaveOutcomes : update_zone_capacities(query_ok, save)
  \/ \E save \in SaveOutcomes : update_current_quantities_fast(save)
  \/ \E codes_given, query_ok \in BOOLEAN, save \in SaveOutcomes : \E location_items \in LocationItems :
       update_current_quantities(codes_given, query_ok, location_items, save)
  \/ get_zone_capacities

SpecZones == ZonesInit /\ [][ZonesNext]_vars

CacheBefore(zone_id) == DictGet(zcall.before, zone_id)

CacheAfter(zone_id) == DictGet(zone_capacities, zone_id)

UpstreamIds == {zones[i].id : i \in 1..Len(zones)}

ReturnedFrom(op) == zcall.op = op /\ ~zcall.raised

(* C14: after update_zone_capacities, a zone that was in the cache before the
   call and exists upstream keeps its current_stock and
   utilization_percentage; a zone absent upstream is removed; a new zone
   starts with current_stock 0 and utilization 0.0. *)
C14_RefreshKeepsLiveState ==
  ReturnedFrom("update_zone_capacities") =>
    /\ DictKeys(zone_capacities) = UpstreamIds
    /\ \A id \in UpstreamIds :
         IF DictHas(zcall.before, id)
         THEN /\ CacheAfter(id).current_stock = CacheBefore(id).current_stock
              /\ CacheAfter(id).utilization_percentage = CacheBefore(id).utilization_percentage
         ELSE /\ CacheAfter(id).current_stock = 0
              /\ CacheAfter(id).utilization_percentage = Zero

C14_Witness ==
  /\ ReturnedFrom("update_zone_capacities")
  /\ DictHas(zcall.before, "z1") /\ CacheBefore("z1").current_stock = 3
  /\ DictHas(zone_capacities, "z1") /\ CacheAfter("z1").current_stock = 3
  /\ DictHas(zcall.before, "z2") /\ ~DictHas(zone_capacities, "z2")

CachedZones == {zone_capacities[i][2] : i \in 1..Len(zone_capacities)}

(* C15: after update_current_quantities_fast, in every zone of the cache each
   component's current_stock is the number of its materials, the zone's
   current_stock is the sum of its components' current_stock, and the zone's
   utilization_percentage is current_stock / max_capacity * 100 when
   max_capacity > 0 and 0.0 otherwise. *)
C15_FastSyncStock ==
  ReturnedFrom("update_current_quantities_fast") =>
    \A z \in CachedZones :
      /\ \A c \in 1..Len(z.components) : z.components[c].current_stock = Len(z.components[c].materials)
      /\ z.current_stock = TotalStock(z.components, 1)
      /\ z.utilization_percentage = IF z.max_capacity > 0 THEN Ratio(z.current_stock * 100, z.max_capacity) ELSE Zero

C15_Witness ==
  /\ ReturnedFrom("update_current_quantities_fast")
  /\ DictHas(zone_capacities, "z1")
  /\ CacheAfter("z1").max_capacity = 12
  /\ Len(CacheAfter("z1").components) = 1
  /\ CacheAfter("z1").components[1].materials = FiveMaterials
  /\ CacheBefore("z1").current_stock = 0
  /\ CacheAfter("z1").current_stock = 5
  /\ CacheAfter("z1").utilization_percentage = <<125, 3>>

(* the zones of the cache that update_zone_capacities persisted and no sync
   has touched since: components without the keys a sync adds *)
PersistedByRefresh(before) ==
  \A i \in 1..Len(before) : \A c \in 1..Len(before[i][2].components) :
    /\ before[i][2].components[c].current_stock = AbsentNum
    /\ before[i][2].components[c].max_capacity = Component(before[i][2].components[c]).max_capacity

(* C16: after update_current_quantities_fast on components as persisted by
   update_zone_capacities, a component's utilization_percentage is its
   current_stock / its capacity by the layout rule * 100, and exactly 0.0
   when that capacity is 0. *)
C16_ComponentUtilization ==
  ReturnedFrom("update_current_quantities_fast") /\ PersistedByRefresh(zcall.before) =>
    \A z \in CachedZones : \A c \in 1..Len(z.components) :
      z.components[c].utilization_percentage = Utilization(z.components[c].current_stock, ItemCapacity(z.components[c]))

Synced == ReturnedFrom("update_current_quantities_fast") \/ ReturnedFrom("update_current_quantities")

(* C17: after a sync call returns, cached_display_data.current_stock and
   cached_display_data.utilization_percentage of every zone equal the zone's
   current_stock and utilization_percentage written by that call. *)
C17_DisplayRegenerated ==
  Synced =>
    \A z \in CachedZones :
      z.cached_display_data # NoDisplay =>
        /\ z.cached_display_data.current_stock = z.current_stock
        /\ z.cached_display_data.utilization_percentage = z.utilization_percentage

RECURSIVE SumPercentages(_, _)
SumPercentages(lot_distribution, i) ==
  IF i > Len(lot_distribution) THEN 0
  ELSE lot_distribution[i].percentage + SumPercentages(lot_distribution, i + 1)

(* C18: in the lot distribution of a non-empty zone no bucket's percentage
   exceeds 100 and the percentages add up to 100 within the rounding of one
   decimal per bucket (percentages are in tenths of a percent). *)
C18_LotPercentages ==
  ReturnedFrom("update_current_quantities_fast") =>
    \A z \in CachedZones :
      z.cached_display_data.total_items > 0 =>
        /\ \A i \in 1..Len(z.cached_display_data.lot_distribution) :
             z.cached_display_data.lot_distribution[i].percentage <= 1000
        /\ SumPercentages(z.cached_display_data.lot_distribution, 1) - 1000 \in
             (0 - Len(z.cached_display_data.lot_distribution))..Len(z.cached_display_data.lot_distribution)

(* the stock update_current_quantities computes for a zone: the materials
   its components hold when the call starts *)
StockOf(zone_data) == Len(ZoneMaterials(AllComponents(zone_data.layouts.list, 1), 1))

(* C19: update_current_quantities does not raise, and when the processing of
   one zone raises, every other zone of the cache is still updated and its
   new stock is persisted. *)
C19_OtherZonesStillUpdated ==
  zcall.op = "update_current_quantities" =>
    /\ ~zcall.raised
    /\ zcall.failed_zone # 0 =>
         \A i \in 1..Len(zone_capacities) :
           i # zcall.failed_zone =>
             /\ zone_capacities[i][2].current_stock = StockOf(zcall.before[i][2])
             /\ zone_capacities[i][2].cached_display_data # NoDisplay

(* C20: when _save_capacities raises, the call that attempted the save
   raises to its caller. *)
C20_SaveFailureIsFatal == zcall.save_failed => zcall.raised

(* a non-empty cache whose zones are as update_zone_capacities writes them:
   components under 'components', no 'layouts' key *)
WrittenByRefresh(data) ==
  /\ data # <<>>
  /\ \A i \in 1..Len(data) : data[i][2].layouts = NullList /\ data[i][2].components # <<>>

(* the call got as far as the zone loop *)
ReachedZoneLoop == zcall.failed_zone # 0 \/ zone_capacities # zcall.before

(* C21: update_current_quantities on a cache written by
   update_zone_capacities persists, for every zone, the current_stock and the
   cached_display_data that the fast path computes from the zone's
   materials lists. *)
C21_AuthoritativeLikeFast ==
  zcall.op = "update_current_quantities" /\ ReachedZoneLoop /\ WrittenByRefresh(zcall.before) =>
    \A z \in CachedZones :
      /\ z.cached_display_data # NoDisplay
      /\ z.current_stock = Len(ZoneMaterials(z.components, 1))

----------------------------------------------------------------------------
(* column_mapping.py: map_wms_row and map_sap_row called on their own *)

H_ZoneCd == <<"Z","o","n","e"," ","C","d">>

H_Loc == <<"L","o","c">>

H_StorageLocation == <<"S","t","o","r","a","g","e"," ","l","o","c","a","t","i","o","n">>

H_Batch == <<"B","a","t","c","h">>

H_Lot == <<"L","o","t">>

H_Mat == <<"M","a","t">>

T_cell_no == <<"c","e","l","l","_","n","o">>

T_storage_location == <<"s","t","o","r","a","g","e","_","l","o","c","a","t","i","o","n">>

T_batch == <<"b","a","t","c","h">>

T_material == <<"m","a","t","e","r","i","a","l">>

WmsMapRows ==
  { << <<H_ItemCode, <<"A","1">>>>, <<H_CellNo, <<"C","1">>>>, <<H_ZoneCd, <<"F">>>> >>,
    << <<H_ItemCode, <<"A","1">>>>, <<H_Loc, <<"L","9">>>>, <<H_CellNo, <<"C","1">>>> >>,
    << <<H_ItemCode, <<"A","1">>>>, <<H_Loc, <<"L","9">>>> >> }

SapMapRows ==
  { << <<H_Material, <<"M","1">>>>, <<H_StorageLocation, <<"S","1">>>>, <<H_Batch, <<"B","1">>>>, <<H_Plant, V_1000>> >>,
    << <<H_Material, <<"M","1">>>>, <<H_Loc, <<"L","9">>>>, <<H_StorageLocation, <<"S","1">>>> >>,
    << <<H_Mat, <<"M","2">>>>, <<H_Material, <<"M","1">>>>, <<H_Lot, <<"X">>>>, <<H_Batch, <<"B","1">>>> >> }

WmsMapClassifications ==
  { [ClassificationConfig EXCEPT !.location_col = l, !.item_col = i, !.zone_col = z] :
      l \in {None, H_CellNo, H_ZoneCd, H_Loc}, i \in {None, H_ItemCode}, z \in {None, H_ZoneCd} }

SapMapClassifications ==
  { [ClassificationConfig EXCEPT !.location_col = l, !.item_col = i, !.lot_col = b] :
      l \in {None, H_StorageLocation, H_Loc}, i \in {None, H_Material, H_Mat}, b \in {None, H_Batch, H_Lot} }

MapInputs ==
  [fn : {"map_wms_row"}, sheet_row : WmsMapRows, classification : WmsMapClassifications]
    \cup [fn : {"map_sap_row"}, sheet_row : SapMapRows, classification : SapMapClassifications]

MappingInit ==
  /\ WInit
  /\ SrcIdle
  /\ KIdle
  /\ BIdle
  /\ CIdle
  /\ ZIdle
  /\ DIdle
  /\ RIdle
  /\ supabase
  /\ binding = NoBinding
  /\ fnIn \in MapInputs
  /\ fnOut = [none |-> TRUE]

CallMapWmsRow ==
  /\ fnOut = [none |-> TRUE]
  /\ fnIn.fn = "map_wms_row"
  /\ fnOut' = [mapped |-> map_wms_row(fnIn.sheet_row, fnIn.classification)]
  /\ UNCHANGED <<wvars, srcIn, srcOut, kvars, bvars, cvars, zvars, fnIn, dvars, rvars>>

CallMapSapRow ==
  /\ fnOut = [none |-> TRUE]
  /\ fnIn.fn = "map_sap_row"
  /\ fnOut' = [mapped |-> map_sap_row(fnIn.sheet_row, fnIn.classification)]
  /\ UNCHANGED <<wvars, srcIn, srcOut, kvars, bvars, cvars, zvars, fnIn, dvars, rvars>>

MappingNext == CallMapWmsRow \/ CallMapSapRow

SpecMapping == MappingInit /\ [][MappingNext]_vars

FnCalled == fnOut # [none |-> TRUE]

(* the header a classification role resolves to in the row, or None *)
RoleHeader(role) == find_column_by_name(fnIn.sheet_row, fnIn.classification[role])

MapTable == IF fnIn.fn = "map_wms_row" THEN WMS_COLUMN_MAP ELSE SAP_COLUMN_MAP

(* the canonical field a role writes *)
RoleTarget(role) ==
  IF fnIn.fn = "map_wms_row"
  THEN IF role = "location_col" THEN T_cell_no ELSE normalize_column_name(RoleHeader(role))
  ELSE IF role = "location_col" THEN T_storage_location
  ELSE IF role = "lot_col" THEN T_batch
  ELSE IF role = "item_col" THEN T_material
  ELSE normalize_column_name(RoleHeader(role))

ResolvedRoles ==
  {role \in {"zone_col", "location_col", "lot_col", "item_col"} : RoleHeader(role) # None}

(* C22: the static dictionary pass writes no field from a header that a
   classification role resolved to: when such a header has a dictionary
   target that no role writes and no other header of the row maps to, the
   mapped record does not hold that target. *)
C22_ConsumedHeaderSkipped ==
  FnCalled =>
    \A role \in ResolvedRoles :
      \/ StaticTarget(MapTable, RoleHeader(role)) = None
      \/ StaticTarget(MapTable, RoleHeader(role)) \in {RoleTarget(r) : r \in ResolvedRoles}
      \/ \E i \in 1..Len(fnIn.sheet_row) :
           /\ fnIn.sheet_row[i][1] # RoleHeader(role)
           /\ StaticTarget(MapTable, fnIn.sheet_row[i][1]) = StaticTarget(MapTable, RoleHeader(role))
      \/ ~DictHas(fnOut.mapped, StaticTarget(MapTable, RoleHeader(role)))

(* C23: whenever the location role (and for SAP the lot and item roles)
   resolves to a header H of the row, the canonical field of the role holds
   the value of H in the mapped record. *)
C23_ClassificationWins ==
  FnCalled =>
    \A role \in ResolvedRoles \cap (IF fnIn.fn = "map_wms_row" THEN {"location_col"} ELSE {"location_col", "lot_col", "item_col"}) :
      DictGet(fnOut.mapped, RoleTarget(role)) = DictGet(fnIn.sheet_row, RoleHeader(role))

----------------------------------------------------------------------------
(* sheets.py: normalize called on its own *)

NormalizeInputs ==
  [fn : {"normalize"},
   values : {<<WmsHeader4>> \o rows : rows \in SeqsUpTo(WmsRowPool, MaxRows)}
              \cup {<<SapHeader>> \o rows : rows \in SeqsUpTo(SapRowPool, MaxRows)}]

NormalizeInit ==
  /\ WInit
  /\ SrcIdle
  /\ KIdle
  /\ BIdle
  /\ CIdle
  /\ ZIdle
  /\ DIdle
  /\ RIdle
  /\ supabase
  /\ binding = NoBinding
  /\ fnIn \in NormalizeInputs
  /\ fnOut = [none |-> TRUE]

CallNormalize ==
  /\ fnOut = [none |-> TRUE]
  /\ fnOut' = [rows |-> normalize(fnIn.values)]
  /\ UNCHANGED <<wvars, srcIn, srcOut, kvars, bvars, cvars, zvars, fnIn, dvars, rvars>>

NormalizeNext == CallNormalize

SpecNormalize == NormalizeInit /\ [][NormalizeNext]_vars

(* C24: for every header that is neither numeric nor a date, normalize
   yields a trimmed string or null, and never an empty string. *)
C24_StringOrNull ==
  FnCalled =>
    \A r \in 1..Len(fnOut.rows) : \A i \in 1..Len(fnOut.rows[r]) :
      fnOut.rows[r][i][1] \notin NUMERIC_KEYS \cup DATE_KEYS =>
        /\ fnOut.rows[r][i][2] # <<>>
        /\ fnOut.rows[r][i][2] = Strip(fnOut.rows[r][i][2])


----------------------------------------------------------------------------
(* dashboard_cache.py: the cache files and their age *)

MaxClock == 4

(* cache_duration = timedelta(minutes=30), in units of ten minutes *)
cache_duration == 3

(* _load_cache answers None for a missing file, for a file it cannot read
   and for an entry that is not younger than cache_duration *)
LoadsCacheAtExpiry(entry, now) ==
  /\ entry.present
  /\ entry.readable
  /\ now - entry.cached_at <= cache_duration

load_cache(entry, now) ==
  /\ entry.present
  /\ entry.readable
  /\ now - entry.cached_at < cache_duration

(* _save_cache: open(path, 'w') and json.dump, every exception swallowed.
   "ok" writes the entry; "unwritten" is a failing open, the file is as it
   was; "truncated" is a failure after the open, the file cannot be read *)

save_cache(files, k, data, now, outcome) ==
  CASE outcome = "ok" ->
         [files EXCEPT ![k] = [present |-> TRUE, readable |-> TRUE,
                               cached_at |-> now, data |-> data]]
    [] outcome = "unwritten" -> files
    [] outcome = "truncated" ->
         [files EXCEPT ![k] = [present |-> TRUE, readable |-> FALSE,
                               cached_at |-> 0, data |-> {}]]

StoreNow == [wms |-> Loads(wms_raw_rows), sap |-> Loads(sap_raw_rows), mv |-> mv]

ReadOf(k, entry) ==
  [NoRead EXCEPT !.k = k, !.at = clock, !.stored = entry, !.store = StoreNow]

(* get_inventory_stats, get_zone_utilization, get_user_defined_zones,
   get_expiring_items (lines 232-280): calc_ok is FALSE when the
   calculation raises, save is the outcome of _save_cache *)
GetCached(k, calc_ok, save) ==
  /\ k \in 1..Len(DashboardKinds)
  /\ dash_read.k \in {0, k}
  /\ save \in SaveOutcomes
  /\ IF load_cache(dash_files[k], clock)
     THEN /\ calc_ok
          /\ save = "ok"
          /\ dash_read' = [ReadOf(k, dash_files[k]) EXCEPT
                             !.from_cache = TRUE, !.data = dash_files[k].data]
          /\ UNCHANGED dash_files
     ELSE IF ~calc_ok
     THEN /\ save = "ok"
          /\ dash_read' = [ReadOf(k, dash_files[k]) EXCEPT !.raised = TRUE]
          /\ UNCHANGED dash_files
     ELSE /\ dash_read' = [ReadOf(k, dash_files[k]) EXCEPT
                             !.data = CalculateDashboard(k), !.save = save]
          /\ dash_files' = save_cache(dash_files, k, CalculateDashboard(k), clock, save)
  /\ UNCHANGED <<wvars, srcIn, srcOut, kvars, bvars, cvars, zvars, fvars, clock, rvars>>

(* datetime.utcnow() advances *)
Tick ==
  /\ clock < MaxClock
  /\ clock' = clock + 1
  /\ UNCHANGED <<wvars, srcIn, srcOut, kvars, bvars, cvars, zvars, fvars, dash_files, dash_read, rvars>>

LoadedRow == [source_id |-> <<"S">>, batch_id |-> 1]

(* an ingestion lands between two reads: a load in both raw tables and in
   the materialized view *)
StoreChanges ==
  /\ wms_raw_rows = EmptyBag
  /\ wms_raw_rows' = SetToBag({LoadedRow})
  /\ sap_raw_rows' = SetToBag({LoadedRow})
  /\ mv' = Loads(SetToBag({LoadedRow}))
  /\ UNCHANGED <<supabase, binding, materials, zone_quantities, inventory_snapshot,
                 dashboard_cache, next_batch, pc, req, result, tasks, debug_logs,
                 failed_steps, pre, raised, svars>>

DashboardCacheInit ==
  /\ WInit
  /\ SrcIdle
  /\ XIdle
  /\ supabase
  /\ binding = NoBinding

DashboardCacheNext ==
  \/ \E k \in 1..Len(DashboardKinds), calc_ok \in BOOLEAN, save \in SaveOutcomes :
       GetCached(k, calc_ok, save)
  \/ Tick
  \/ StoreChanges

SpecDashboardCache == DashboardCacheInit /\ [][DashboardCacheNext]_vars

(* what a calculation over the store of the read gives *)
Recomputed ==
  CASE DashboardKinds[dash_read.k] = "inventory_stats" ->
         dash_read.store.wms \cup dash_read.store.sap
    [] DashboardKinds[dash_read.k] = "expiring_items" -> dash_read.store.wms
    [] OTHER -> dash_read.store.mv

StoredAge == dash_read.at - dash_read.stored.cached_at

Usable == dash_read.stored.present /\ dash_read.stored.readable

FreshEntry ==
  [present |-> TRUE, readable |-> TRUE, cached_at |-> dash_read.at, data |-> Recomputed]

(* C25 as stated: a read returns the stored entry only when it is less than
   30 minutes old; every other read recomputes from the store, rewrites the
   entry with the time of the read and returns the new data. *)
C25_TtlAlwaysRewrites ==
  dash_read.k # 0 =>
    IF Usable /\ StoredAge < cache_duration
    THEN dash_read.from_cache /\ dash_read.data = dash_read.stored.data
    ELSE /\ ~dash_read.from_cache
         /\ ~dash_read.raised
         /\ dash_read.data = Recomputed
         /\ dash_files[dash_read.k] = FreshEntry

(* C25, amended: a read returns the stored entry only when it is less than
   30 minutes old; every other read recomputes from the store and, unless
   the calculation raises, returns the new data; the entry is rewritten with
   the time of the read when the write succeeds, and a failed write is
   swallowed. No read returns an entry aged 30 minutes or more. *)
C25_TtlRewritesWhenWritten ==
  dash_read.k # 0 =>
    IF Usable /\ StoredAge < cache_duration
    THEN dash_read.from_cache /\ dash_read.data = dash_read.stored.data
    ELSE /\ ~dash_read.from_cache
         /\ ~dash_read.raised => dash_read.data = Recomputed
         /\ (~dash_read.raised /\ dash_read.save = "ok") =>
              dash_files[dash_read.k] = FreshEntry
         /\ dash_read.raised => dash_files[dash_read.k] = dash_read.stored

C25_Witness ==
  /\ dash_read.k # 0
  /\ Usable
  /\ StoredAge >= cache_duration
  /\ ~dash_read.raised
  /\ dash_read.data # dash_read.stored.data
  /\ dash_files[dash_read.k] = FreshEntry


(* C26: the cache is rewritten atomically: after a write by _save_capacities
   that failed or was interrupted, the file still holds the complete
   contents it had before the call, so the next _load_capacities returns
   the previous zones. *)
C26_FailedWriteKeepsFile == zcall.save_failed => zone_capacities = zcall.before


ResponseIds == {zcall.response.zones[i].zone_id : i \in 1..Len(zcall.response.zones)}

(* C27: get_zone_capacities returns one entry per zone of the cache
   (total_zones = the number of cached zones), ordered by
   utilization_percentage descending; only an empty cache gives an empty
   list. *)
C27_OneEntryPerCachedZone ==
  ReturnedFrom("get_zone_capacities") =>
    /\ zcall.response.total_zones = Len(zone_capacities)
    /\ Len(zcall.response.zones) = Len(zone_capacities)
    /\ ResponseIds = DictKeys(zone_capacities)
    /\ \A i \in 1..Len(zcall.response.zones) - 1 :
         AtLeast(zcall.response.zones[i].utilization_percentage,
                 zcall.response.zones[i + 1].utilization_percentage)


----------------------------------------------------------------------------
(* app_extended.py: GET /raw/latest/{warehouse_code} *)

(* limit: int = Query(50000, ge=1, le=1000000) *)
DefaultLimit == 50000

Limits == {1, DefaultLimit}

(* the source_type parameter; "" stands for a request without it *)
SourceTypes == {"", "wms", "sap"}

SplitValues == {None, V_1000}

RawRow(id, source_id, split_key) == [id |-> id, source_id |-> source_id, split_key |-> split_key]

StoredWms == {RawRow(1, S_1, None), RawRow(2, S_1, None)}

StoredSap == {RawRow(3, S_2, V_1000), RawRow(4, S_2, V_2000)}

SnapshotBindings ==
  { NoBinding,
    Binding(<<Bind(S_1, "wms")>>, <<>>, <<>>),
    Binding(<<Bind(S_2 \o <<":",":">> \o V_1000, "sap"), Bind(S_1, "wms")>>, <<>>, <<>>),
    Binding(<<Bind(S_1, "wms"), Bind(S_2, "sap")>>, <<>>, <<>>) }

(* the rows of a query result, in the order of their ids *)
RECURSIVE SeqById(_)
SeqById(rows) ==
  IF rows = {} THEN <<>>
  ELSE <<CHOOSE r \in rows : \A q \in rows : r.id <= q.id>> \o SeqById(rows \ {CHOOSE r \in rows : \A q \in rows : r.id <= q.id})

(* lines 538-545: .eq('source_id', source_id), and .eq('split_key', ...)
   when split_value is truthy *)
Query(table, source_id, split_value) ==
  SeqById({r \in BagToSet(table) : r.source_id = source_id /\ (Truthy(split_value) => r.split_key = split_value)})

(* lines 547-591: the rows of the query, fetched at once or page by page,
   each with row['source_type'] = bind_type *)
Tagged(rows, bind_type) ==
  [i \in 1..Len(rows) |-> [id |-> rows[i].id, source_id |-> rows[i].source_id, split_key |-> rows[i].split_key, source_type |-> bind_type]]

(* lines 519-535 for one entry of source_bindings: source_id and
   split_value come from the key or the entry, never from the request *)
BoundRows(p, source_type) ==
  IF source_type # "" /\ p.type # source_type THEN <<>>
  ELSE Tagged(Query(IF p.type = "wms" THEN wms_raw_rows ELSE sap_raw_rows, p.source_id, p.split_value), p.type)

(* lines 516-603: the loop over source_bindings.items() *)
RECURSIVE LiveRows(_, _, _)
LiveRows(source_bindings, i, source_type) ==
  IF i > Len(source_bindings) THEN <<>>
  ELSE BoundRows(ParseBindKey(source_bindings[i]), source_type) \o LiveRows(source_bindings, i + 1, source_type)

(* lines 632-634 and 488-489: all_rows[:limit] *)
Truncated(rows, limit) == IF Len(rows) > limit THEN SubSeq(rows, 1, limit) ELSE rows

(* lines 476-486: the rows of the snapshot for the request *)
SnapshotRows(snapshot, source_type, split_value) ==
  SelectSeq(IF source_type = "wms" THEN snapshot.wms_data
            ELSE IF source_type = "sap" THEN snapshot.sap_data
            ELSE snapshot.wms_data \o snapshot.sap_data,
            LAMBDA row : Truthy(split_value) => row.split_key = split_value)

(* lines 610-626 *)
SnapshotData(all_rows) ==
  [present |-> TRUE, readable |-> TRUE,
   wms_data |-> SelectSeq(all_rows, LAMBDA row : row.source_type = "wms"),
   sap_data |-> SelectSeq(all_rows, LAMBDA row : row.source_type = "sap")]

(* _save_snapshot (inventory_snapshot.py lines 40-48): open(path, 'w') and
   json.dump, every exception swallowed *)
SavedSnapshot(all_rows, save) ==
  CASE save = "ok" -> SnapshotData(all_rows)
    [] save = "unwritten" -> snapshot_files
    [] save = "truncated" -> [NoSnapshot EXCEPT !.present = TRUE]

RawRead(use_snapshot, source_type, split_value, limit) ==
  [called |-> TRUE, use_snapshot |-> use_snapshot, source_type |-> source_type,
   split_value |-> split_value, limit |-> limit, rows |-> <<>>,
   from_snapshot |-> FALSE, saved |-> "none"]

(* lines 462-641, with the store configured (require_supabase) *)
get_raw_data(use_snapshot, source_type, split_value, limit, save) ==
  /\ IF use_snapshot /\ snapshot_files.present /\ snapshot_files.readable
     THEN /\ save = "ok"
          /\ raw_read' = [RawRead(use_snapshot, source_type, split_value, limit) EXCEPT
                            !.rows = Truncated(SnapshotRows(snapshot_files, source_type, split_value), limit),
                            !.from_snapshot = TRUE]
          /\ UNCHANGED snapshot_files
     ELSE IF binding = NoBinding \/ binding.source_bindings = <<>>
     THEN /\ save = "ok"
          /\ raw_read' = RawRead(use_snapshot, source_type, split_value, limit)
          /\ UNCHANGED snapshot_files
     ELSE IF use_snapshot /\ LiveRows(binding.source_bindings, 1, source_type) # <<>>
     THEN /\ raw_read' = [RawRead(use_snapshot, source_type, split_value, limit) EXCEPT
                            !.rows = Truncated(LiveRows(binding.source_bindings, 1, source_type), limit),
                            !.saved = save]
          /\ snapshot_files' = SavedSnapshot(LiveRows(binding.source_bindings, 1, source_type), save)
     ELSE /\ save = "ok"
          /\ raw_read' = [RawRead(use_snapshot, source_type, split_value, limit) EXCEPT
                            !.rows = Truncated(LiveRows(binding.source_bindings, 1, source_type), limit)]
          /\ UNCHANGED snapshot_files
  /\ UNCHANGED <<wvars, srcIn, srcOut, kvars, bvars, cvars, zvars, fvars, dvars>>

(* the rows ingested before the first read *)
StoreLoaded ==
  /\ wms_raw_rows = EmptyBag
  /\ raw_read = NoRawRead
  /\ wms_raw_rows' = SetToBag(StoredWms)
  /\ sap_raw_rows' = SetToBag(StoredSap)
  /\ UNCHANGED <<supabase, binding, materials, mv, zone_quantities, inventory_snapshot,
                 dashboard_cache, next_batch, pc, req, result, tasks, debug_logs,
                 failed_steps, pre, raised, svars>>

RawDataInit ==
  /\ WInit
  /\ SrcIdle
  /\ XIdle
  /\ supabase
  /\ binding \in SnapshotBindings

RawDataNext ==
  \/ \E use_snapshot \in BOOLEAN, source_type \in SourceTypes, split_value \in SplitValues, limit \in Limits, save \in SaveOutcomes :
       get_raw_data(use_snapshot, source_type, split_value, limit, save)
  \/ StoreLoaded

SpecRawData == RawDataInit /\ [][RawDataNext]_vars

(* all rows of every bound source of one type, as a live read without
   parameters returns them *)
FullData(type) ==
  IF binding = NoBinding THEN <<>>
  ELSE SelectSeq(LiveRows(binding.source_bindings, 1, ""), LAMBDA row : row.source_type = type)

(* C28: the snapshot saved by a read that fell back to the live query holds
   all rows of every bound WMS and SAP source, whatever the request's
   source_type, split_value and limit; and a later read from the snapshot
   returns, for any source_type, the rows a live read of the unchanged
   store returns. *)
C28_SnapshotHoldsFullData ==
  /\ (raw_read.called /\ raw_read.saved = "ok") =>
       /\ snapshot_files.wms_data = FullData("wms")
       /\ snapshot_files.sap_data = FullData("sap")
  /\ (raw_read.called /\ raw_read.from_snapshot /\ raw_read.split_value = None) =>
       raw_read.rows = Truncated(LiveRows(binding.source_bindings, 1, raw_read.source_type), raw_read.limit)


(* the zones of the cache before the refresh whose components upstream are
   the components they had, and whose stock was the number of their
   pre-matched materials *)
InSyncBefore(zone_id) ==
  /\ DictHas(zcall.refresh_before, zone_id)
  /\ DictHas(zone_capacities, zone_id)
  /\ \E i \in 1..Len(zones) :
       /\ zones[i].id = zone_id
       /\ Len(zones[i].items) = Len(DictGet(zcall.refresh_before, zone_id).components)
       /\ \A c \in 1..Len(zones[i].items) :
            zones[i].items[c].id = DictGet(zcall.refresh_before, zone_id).components[c].id
  /\ DictGet(zcall.refresh_before, zone_id).current_stock =
       Len(ZoneMaterials(DictGet(zcall.refresh_before, zone_id).components, 1))

(* C29: a layout refresh does not lose live stock: after
   update_zone_capacities with the layout unchanged upstream and then
   update_current_quantities_fast, every surviving zone and component has
   the current_stock it had before the two calls. *)
C29_RefreshThenSyncKeepsStock ==
  ReturnedFrom("update_current_quantities_fast") =>
    \A zone_id \in DictKeys(zcall.refresh_before) :
      InSyncBefore(zone_id) =>
        /\ CacheAfter(zone_id).current_stock = DictGet(zcall.refresh_before, zone_id).current_stock
        /\ \A c \in 1..Len(CacheAfter(zone_id).components) :
             CacheAfter(zone_id).components[c].current_stock =
               Len(DictGet(zcall.refresh_before, zone_id).components[c].materials)


(* C30: update_current_quantities_fast completes for every cache that
   update_zone_capacities can produce, flat components with a null
   max_capacity and rack components included: the fast sync that follows a
   refresh returns without raising. *)
C30_FastSyncAfterRefreshReturns ==
  (zcall.op = "update_current_quantities_fast" /\ zcall.after_refresh /\ ~zcall.save_failed) =>
    ~zcall.raised

====
